---- MODULE Spec2Model ----
(***************************************************************************)
(* Model of the credential-lifecycle engine of CLIProxyAPIPlus:            *)
(*   - the per-token RateLimiter (internal/auth/kiro, rate limiter part    *)
(*     of src/internal/usage/stats.go, lines 489-804);                     *)
(*   - the Kiro BackgroundRefresher with graceful degradation              *)
(*     (src/internal/auth/kiro/background_refresh.go, src/unnamed/part_009)*)
(*                                                                         *)
(* Time is counted in ticks of 100 ms (TicksPerSecond = 10).  time.Time{}  *)
(* (the zero time) is tick 0; the wall clock starts close to a 24 h        *)
(* boundary, far away from the zero time, as every real clock does.        *)
(***************************************************************************)
EXTENDS Integers, Sequences, FiniteSets, TLC

\* ------------------------------------------------------------------------
\* Bounds of the model
\* ------------------------------------------------------------------------
\* ticks the clock may advance during one run
MaxElapsed == 6
\* ticks between the start of the run and the next 24 h boundary
TicksToMidnight == 3
\* WaitForToken calls started during one run
MaxCalls == 2
\* calls of the marking and management operations (MarkTokenFailed,
\* MarkTokenSuccess, CheckAndMarkSuspended, ClearTokenState, ResetSuspension)
\* and cancellations of waiting requests during one run
MaxFailMarks == 1

\* ------------------------------------------------------------------------
\* Program constants (durations in ticks of 100 ms)
\* ------------------------------------------------------------------------
TicksPerSecond == 10
DayTicks == 864000
DefaultMinTokenInterval == 10
DefaultMaxTokenInterval == 20
DefaultDailyMaxRequests == 500
DefaultJitterNum == 3
DefaultJitterDen == 10
DefaultBackoffBase == 300
DefaultBackoffMax == 3000
DefaultBackoffMultNum == 3
DefaultBackoffMultDen == 2
DefaultSuspendCooldown == 36000
ZeroTime == 0

StartNow == DayTicks - TicksToMidnight
EndNow == StartNow + MaxElapsed

Min(a, b) == IF a < b THEN a ELSE b

RECURSIVE Pow(_, _)
Pow(b, e) == IF e <= 0 THEN 1 ELSE b * Pow(b, e - 1)

\* time.Time.Truncate(d) for d > 0 on the tick clock
Truncate(t, d) == t - (t % d)

\* ------------------------------------------------------------------------
\* Rate limiter: state
\* ------------------------------------------------------------------------
\* the entries of rl.states are independent of each other: one key carries
\* every interplay of callers and marking operations
Keys == {"k1"}

\* the keys of the runs that follow what an operation on one key does to
\* another
TwoKeys == {"k1", "k2"}
Callers == {"c1", "c2"}

VARIABLES
    now,        \* wall clock (time.Now()), in ticks
    rl,         \* the RateLimiter's configuration fields
    states,     \* rl.states: token key -> TokenState (a partial function)
    wpc,        \* per caller: where it is inside WaitForToken
    wkey,       \* per caller: the tokenKey argument of its WaitForToken call
    wake,       \* per caller: the time its time.Sleep ends
    calls,      \* number of WaitForToken calls started
    marks,      \* number of marking and management calls made
    admitLog,   \* per key: the last two admissions (returns) of WaitForToken
                \* since the key's state was created
    cancelled   \* the caller whose request was cancelled while it waited, and
                \* when

rlVars == <<rl, states, wpc, wkey, wake, calls, marks, admitLog, cancelled>>

\* Background refresher: state
VARIABLES
    br,         \* the BackgroundRefresher's fields (interval, batchSize, ...)
    tok,        \* the Token objects the repository hands out (by pointer)
    persisted,  \* what TokenRepository.UpdateToken has stored, per token
    loop,       \* the background goroutine: Start's loop and refreshBatch
    rs,         \* per token: the refreshSingle goroutine working on it
    issued,     \* number of access tokens the provider has issued
    installed,  \* per token: the (access_token, expires_at) revisions
    snap,       \* the last (access_token, expires_at) pair a reader took
    runtime,    \* the runtime's Auth object per client, fed by the callback
    health,     \* per client: the health mark of the spec
    nextAdmit   \* per client: the first admission after its last refresh

\* a call of RefreshWithGracefulDegradation on its own: arguments and result
VARIABLES gd

gdVars == <<gd>>

\* Model registry and its management handlers: state
VARIABLES
    models,     \* reg.models: model ID -> ModelRegistration (QuotaExceededClients,
                \* SuspendedClients)
    op,         \* the last registry or management call and its response
    maOps,      \* number of registry and management calls made
    maSteps,    \* number of times the clock was advanced
    counter     \* roundRobinSelector.counter

maVars == <<models, op, maOps, maSteps, counter>>

\* An interactive Kiro login (social, IDC, Builder ID device code, Builder ID
\* authorization code): state
VARIABLES login

loginVars == <<login>>

\* a call of a function on its own (IsTokenExpiringSoon, Manager.Authenticate,
\* MapModel): arguments and result
VARIABLES call

callVars == <<call>>

\* the handler of one streaming request: its loop over the upstream stream
VARIABLES stream

streamVars == <<stream>>

\* the usage statistics kept in Redis, the Record calls in flight and the
\* last MergeSnapshot call
VARIABLES stats

statsVars == <<stats>>

brVars == <<br, tok, persisted, loop, rs, issued, installed, snap, runtime,
            health, nextAdmit>>
vars == <<now, rlVars, brVars, gdVars, maVars, loginVars, callVars, streamVars, statsVars>>

\* what each part of the program leaves alone
otherThanRL == <<brVars, gdVars, maVars, loginVars, callVars, streamVars, statsVars>>
otherThanBR == <<rlVars, gdVars, maVars, loginVars, callVars, streamVars, statsVars>>
otherThanGD == <<rlVars, brVars, maVars, loginVars, callVars, streamVars, statsVars>>
otherThanMA == <<rlVars, brVars, gdVars, loginVars, callVars, streamVars, statsVars>>
otherThanLogin == <<rlVars, brVars, gdVars, maVars, callVars, streamVars, statsVars>>
otherThanCall == <<rlVars, brVars, gdVars, maVars, loginVars, streamVars, statsVars>>
otherThanStream == <<rlVars, brVars, gdVars, maVars, loginVars, callVars, statsVars>>
otherThanStats == <<rlVars, brVars, gdVars, maVars, loginVars, callVars, streamVars>>

\* RateLimiterConfig values handed to NewRateLimiterWithConfig; a 0 field
\* keeps the default.
RLConfigs ==
    { [MinTokenInterval |-> 4, MaxTokenInterval |-> 6, DailyMaxRequests |-> 0,
       BackoffBase |-> 0, BackoffMax |-> 0, SuspendCooldown |-> 0],
      [MinTokenInterval |-> 4, MaxTokenInterval |-> 6, DailyMaxRequests |-> 1,
       BackoffBase |-> 2, BackoffMax |-> 3, SuspendCooldown |-> 4],
      [MinTokenInterval |-> 5, MaxTokenInterval |-> 5, DailyMaxRequests |-> 0,
       BackoffBase |-> 0, BackoffMax |-> 0, SuspendCooldown |-> 0] }

NewRateLimiter ==
    [minTokenInterval |-> DefaultMinTokenInterval,
     maxTokenInterval |-> DefaultMaxTokenInterval,
     dailyMaxRequests |-> DefaultDailyMaxRequests,
     backoffBase      |-> DefaultBackoffBase,
     backoffMax       |-> DefaultBackoffMax,
     suspendCooldown  |-> DefaultSuspendCooldown]

NewRateLimiterWithConfig(cfg) ==
    [minTokenInterval |-> IF cfg.MinTokenInterval > 0 THEN cfg.MinTokenInterval
                          ELSE NewRateLimiter.minTokenInterval,
     maxTokenInterval |-> IF cfg.MaxTokenInterval > 0 THEN cfg.MaxTokenInterval
                          ELSE NewRateLimiter.maxTokenInterval,
     dailyMaxRequests |-> IF cfg.DailyMaxRequests > 0 THEN cfg.DailyMaxRequests
                          ELSE NewRateLimiter.dailyMaxRequests,
     backoffBase      |-> IF cfg.BackoffBase > 0 THEN cfg.BackoffBase
                          ELSE NewRateLimiter.backoffBase,
     backoffMax       |-> IF cfg.BackoffMax > 0 THEN cfg.BackoffMax
                          ELSE NewRateLimiter.backoffMax,
     suspendCooldown  |-> IF cfg.SuspendCooldown > 0 THEN cfg.SuspendCooldown
                          ELSE NewRateLimiter.suspendCooldown]

\* a fresh TokenState, as getOrCreateState builds it at time t
NewTokenState(t) ==
    [LastRequest    |-> ZeroTime,
     RequestCount   |-> 0,
     CooldownEnd    |-> ZeroTime,
     FailCount      |-> 0,
     DailyRequests  |-> 0,
     DailyResetTime |-> Truncate(t, DayTicks) + DayTicks,
     IsSuspended    |-> FALSE,
     SuspendedAt    |-> ZeroTime]

getOrCreateState(sts, k, t) ==
    IF k \in DOMAIN sts THEN sts ELSE sts @@ (k :> NewTokenState(t))

resetDailyIfNeeded(st, t) ==
    IF t > st.DailyResetTime
    THEN [st EXCEPT !.DailyRequests = 0,
                    !.DailyResetTime = Truncate(t, DayTicks) + DayTicks]
    ELSE st

\* Sample points of the random source: rng.Float64()*2 - 1 lies in [-1, 1)
\* and is sampled at its two ends and in the middle; rng.Int63n(n) lies in
\* 0 .. n-1 and is sampled at its two ends.
RandSigns == {0 - 1, 0, 1}
Int63n(n) == {0, n - 1}

\* rng.Int63n(n) panics ("invalid argument to Int63n") when n <= 0
Int63nPanics(n) == n <= 0

\* float64(x) * jitterPercent * (rng.Float64()*2 - 1), to the tick
JitterOf(x) ==
    { sgn * ((x * DefaultJitterNum) \div DefaultJitterDen) : sgn \in RandSigns }

\* calculateInterval: minTokenInterval + Int63n(max - min), plus jitter
calculateInterval(cfg) ==
    UNION { { (cfg.minTokenInterval + r) + j : j \in JitterOf(cfg.minTokenInterval + r) } :
            r \in Int63n(cfg.maxTokenInterval - cfg.minTokenInterval) }

\* float64 values are kept to the tick while they are below ExactLimit, and
\* in units of CoarseUnit ticks above it; up to multiplier^ExactExponent the
\* power is computed without any rounding
CoarseUnit == 1000
ExactLimit == 100000000
ExactExponent == 12

\* math.MaxInt64 nanoseconds, the largest time.Duration, in units of
\* CoarseUnit ticks
MaxDurationCoarse == 92233720

\* time.Duration(math.MinInt64) lies 292 years back; the model puts it
\* 2 * 10^9 ticks back, before every time it deals with
MinDuration == 0 - 2000000000

\* float64(rl.backoffBase) * math.Pow(rl.backoffMultiplier, e), to the tick
ExactBackoff(cfg, e) ==
    (cfg.backoffBase * Pow(DefaultBackoffMultNum, e)) \div Pow(DefaultBackoffMultDen, e)

\* the float64 f times math.Pow(rl.backoffMultiplier, e); the growth is
\* followed until the value is beyond every time.Duration
RECURSIVE Grow(_, _)
Grow(f, e) ==
    IF e <= 0 THEN f
    ELSE IF f.coarse
    THEN IF f.v > 2 * MaxDurationCoarse THEN f
         ELSE Grow([f EXCEPT !.v = (@ * DefaultBackoffMultNum) \div DefaultBackoffMultDen],
                   e - 1)
    ELSE IF f.v > ExactLimit
    THEN Grow([coarse |-> TRUE, v |-> f.v \div CoarseUnit], e)
    ELSE Grow([f EXCEPT !.v = (@ * DefaultBackoffMultNum) \div DefaultBackoffMultDen],
              e - 1)

\* time.Duration(backoff) followed by the cap.  A float64 beyond
\* math.MaxInt64 converts to an implementation-dependent value: math.MinInt64
\* on amd64, which is not above backoffMax and is returned as it is, or
\* math.MaxInt64 on arm64, which is capped.
FloatToDuration(cfg, f) ==
    IF ~f.coarse
    THEN {IF f.v > cfg.backoffMax THEN cfg.backoffMax ELSE f.v}
    ELSE IF f.v > MaxDurationCoarse THEN {MinDuration, cfg.backoffMax}
    ELSE IF f.v > cfg.backoffMax \div CoarseUnit THEN {cfg.backoffMax}
    ELSE {f.v * CoarseUnit}

\* calculateBackoff: base * multiplier^(failCount-1), jittered, capped
calculateBackoff(cfg, failCount) ==
    IF failCount <= 0 THEN {0}
    ELSE IF failCount - 1 <= ExactExponent
    THEN LET backoff == ExactBackoff(cfg, failCount - 1)
         IN { IF backoff + j > cfg.backoffMax THEN cfg.backoffMax ELSE backoff + j :
              j \in JitterOf(backoff) }
    ELSE LET backoff == Grow([coarse |-> FALSE, v |-> ExactBackoff(cfg, ExactExponent)],
                             failCount - 1 - ExactExponent)
         IN UNION { FloatToDuration(cfg, [backoff EXCEPT !.v = @ + j]) :
                    j \in JitterOf(backoff.v) }

\* ------------------------------------------------------------------------
\* Error messages, as sequences of characters
\* ------------------------------------------------------------------------
UpperCase == <<"A", "B", "C", "D", "E", "F", "G", "H", "I", "J", "K", "L", "M",
               "N", "O", "P", "Q", "R", "S", "T", "U", "V", "W", "X", "Y", "Z">>
LowerCase == <<"a", "b", "c", "d", "e", "f", "g", "h", "i", "j", "k", "l", "m",
               "n", "o", "p", "q", "r", "s", "t", "u", "v", "w", "x", "y", "z">>

ToLowerChar(ch) ==
    IF \E i \in 1..Len(UpperCase) : UpperCase[i] = ch
    THEN LowerCase[CHOOSE i \in 1..Len(UpperCase) : UpperCase[i] = ch]
    ELSE ch

\* strings.ToLower
ToLower(msg) == [i \in 1..Len(msg) |-> ToLowerChar(msg[i])]

\* strings.Contains
Contains(s, sub) ==
    \E i \in 0..(Len(s) - Len(sub)) :
        \A j \in 1..Len(sub) : s[i + j] = sub[j]

suspendKeywords ==
    << <<"s","u","s","p","e","n","d","e","d">>,
       <<"b","a","n","n","e","d">>,
       <<"d","i","s","a","b","l","e","d">>,
       <<"a","c","c","o","u","n","t"," ","h","a","s"," ","b","e","e","n">>,
       <<"a","c","c","e","s","s"," ","d","e","n","i","e","d">>,
       <<"r","a","t","e"," ","l","i","m","i","t"," ","e","x","c","e","e","d","e","d">>,
       <<"t","o","o"," ","m","a","n","y"," ","r","e","q","u","e","s","t","s">>,
       <<"q","u","o","t","a"," ","e","x","c","e","e","d","e","d">> >>

\* the error messages callers pass to CheckAndMarkSuspended in this model
ErrorMsgs ==
    { <<"U","s","e","r"," ","B","A","N","N","E","D","!">>,
      <<"t","i","m","e","o","u","t">> }

\* more error messages: one for each keyword, in mixed case, and some that
\* hold no keyword
KeywordMsgs ==
    ErrorMsgs \cup
    { <<"A","c","c","o","u","n","t"," ","S","u","s","p","e","n","d","e","d">>,
      <<"u","s","e","r"," ","b","a","n","n","e","d">>,
      <<"k","e","y"," ","D","I","S","A","B","L","E","D">>,
      <<"Y","o","u","r"," ","A","c","c","o","u","n","t"," ","H","a","s"," ","B","e","e","n"," ","l","o","c","k","e","d">>,
      <<"A","c","c","e","s","s"," ","D","e","n","i","e","d">>,
      <<"R","a","t","e"," ","L","i","m","i","t"," ","E","x","c","e","e","d","e","d">>,
      <<"4","2","9"," ","T","o","o"," ","M","a","n","y"," ","R","e","q","u","e","s","t","s">>,
      <<"Q","u","o","t","a"," ","e","x","c","e","e","d","e","d">>,
      <<"s","u","s","p","e","n","d">>,
      <<"q","u","o","t","a"," "," ","e","x","c","e","e","d","e","d">>,
      << >> }

\* a keyword search that tells upper case from lower case
MatchesSuspendKeywordExactCase(errorMsg) ==
    \E n \in 1..Len(suspendKeywords) : Contains(errorMsg, suspendKeywords[n])

\* the loop of CheckAndMarkSuspended: does some keyword occur in the message?
MatchesSuspendKeyword(errorMsg) ==
    LET lowerMsg == ToLower(errorMsg)
    IN \E n \in 1..Len(suspendKeywords) : Contains(lowerMsg, suspendKeywords[n])

\* ------------------------------------------------------------------------
\* Rate limiter: operations
\* ------------------------------------------------------------------------
AdmitEntry(st, t) ==
    [at |-> t, cooldownEnd |-> st.CooldownEnd, dailyBefore |-> st.DailyRequests,
     suspended |-> st.IsSuspended /\ t < st.SuspendedAt + rl.suspendCooldown]

\* keep the last two admissions of a key
Remember(log, e) == IF Len(log) = 0 THEN <<e>> ELSE <<log[Len(log)], e>>

\* an admission that leaves the daily counter alone
AdmitWithoutDailyCount(c, k, sts) ==
    /\ states' = [sts EXCEPT ![k].LastRequest = now,
                             ![k].RequestCount = @ + 1]
    /\ admitLog' = [admitLog EXCEPT ![k] = Remember(@, AdmitEntry(sts[k], now))]
    /\ wpc' = [wpc EXCEPT ![c] = "idle"]
    /\ wake' = [wake EXCEPT ![c] = ZeroTime]
    /\ cancelled' = IF cancelled # << >> /\ cancelled[1].caller = c THEN << >>
                    ELSE cancelled

\* lines 654-657: the admission itself
Admit(c, k, sts) ==
    /\ states' = [sts EXCEPT ![k].LastRequest = now,
                             ![k].RequestCount = @ + 1,
                             ![k].DailyRequests = @ + 1]
    /\ admitLog' = [admitLog EXCEPT ![k] = Remember(@, AdmitEntry(sts[k], now))]
    /\ wpc' = [wpc EXCEPT ![c] = "idle"]
    /\ wake' = [wake EXCEPT ![c] = ZeroTime]
    /\ cancelled' = IF cancelled # << >> /\ cancelled[1].caller = c THEN << >>
                    ELSE cancelled

\* some WaitForToken call panicked in calculateInterval: it held rl.mu, which
\* is unlocked by no defer, so no operation of the limiter gets any further
Panicked == \E c \in Callers : wpc[c] = "panicked"

\* lines 642-657: pace against LastRequest, then sleep or admit
PaceOrAdmit(c, k, sts) ==
    IF Int63nPanics(rl.maxTokenInterval - rl.minTokenInterval)
    THEN /\ states' = sts
         /\ wpc' = [wpc EXCEPT ![c] = "panicked"]
         /\ UNCHANGED <<wake, admitLog, cancelled>>
    ELSE \E interval \in calculateInterval(rl) :
           LET nextAllowedTime == sts[k].LastRequest + interval
           IN IF now < nextAllowedTime
              THEN /\ states' = sts
                   /\ wpc' = [wpc EXCEPT ![c] = "sleepInterval"]
                   /\ wake' = [wake EXCEPT ![c] = nextAllowedTime]
                   /\ UNCHANGED <<admitLog, cancelled>>
              ELSE Admit(c, k, sts)

\* WaitForToken, from the call to the first unlock (lines 626-636) or, with no
\* wait needed, to the return
WaitForTokenEnter(c, k) ==
    /\ ~Panicked
    /\ wpc[c] = "idle"
    /\ calls < MaxCalls
    /\ calls' = calls + 1
    /\ wkey' = [wkey EXCEPT ![c] = k]
    /\ LET s1 == getOrCreateState(states, k, now)
           s2 == [s1 EXCEPT ![k] = resetDailyIfNeeded(s1[k], now)]
       IN IF now < s2[k].CooldownEnd
          THEN /\ states' = s2
               /\ wpc' = [wpc EXCEPT ![c] = "sleepCooldown"]
               /\ wake' = [wake EXCEPT ![c] = s2[k].CooldownEnd]
               /\ UNCHANGED <<admitLog, cancelled>>
          ELSE PaceOrAdmit(c, k, s2)
    /\ UNCHANGED <<otherThanRL, now, rl, marks>>

\* WaitForToken after the cooldown sleep (lines 637-657)
WaitForTokenAfterCooldown(c) ==
    /\ ~Panicked
    /\ wpc[c] = "sleepCooldown"
    /\ now >= wake[c]
    /\ PaceOrAdmit(c, wkey[c], getOrCreateState(states, wkey[c], now))
    /\ UNCHANGED <<otherThanRL, now, rl, wkey, calls, marks>>

\* WaitForToken after the pacing sleep (lines 650-657)
WaitForTokenAfterInterval(c) ==
    /\ ~Panicked
    /\ wpc[c] = "sleepInterval"
    /\ now >= wake[c]
    /\ Admit(c, wkey[c], getOrCreateState(states, wkey[c], now))
    /\ UNCHANGED <<otherThanRL, now, rl, wkey, calls, marks>>

MarkTokenFailed(k) ==
    /\ ~Panicked
    /\ marks < MaxFailMarks
    /\ marks' = marks + 1
    /\ LET s1 == getOrCreateState(states, k, now)
           fc == s1[k].FailCount + 1
       IN \E backoff \in calculateBackoff(rl, fc) :
            states' = [s1 EXCEPT ![k].FailCount = fc,
                                 ![k].CooldownEnd = now + backoff]
    /\ UNCHANGED <<otherThanRL, now, rl, wpc, wkey, wake, calls, admitLog,
                   cancelled>>

\* a success mark that lifts the suspension as well
MarkTokenSuccessLiftingSuspension(k) ==
    /\ ~Panicked
    /\ marks < MaxFailMarks
    /\ marks' = marks + 1
    /\ LET s1 == getOrCreateState(states, k, now)
       IN states' = [s1 EXCEPT ![k].FailCount = 0,
                               ![k].CooldownEnd = ZeroTime,
                               ![k].IsSuspended = FALSE,
                               ![k].SuspendedAt = ZeroTime]
    /\ UNCHANGED <<otherThanRL, now, rl, wpc, wkey, wake, calls, admitLog,
                   cancelled>>

MarkTokenSuccess(k) ==
    /\ ~Panicked
    /\ marks < MaxFailMarks
    /\ marks' = marks + 1
    /\ LET s1 == getOrCreateState(states, k, now)
       IN states' = [s1 EXCEPT ![k].FailCount = 0,
                               ![k].CooldownEnd = ZeroTime]
    /\ UNCHANGED <<otherThanRL, now, rl, wpc, wkey, wake, calls, admitLog,
                   cancelled>>

CheckAndMarkSuspended(k, errorMsg) ==
    /\ ~Panicked
    /\ marks < MaxFailMarks
    /\ marks' = marks + 1
    /\ IF MatchesSuspendKeyword(errorMsg)
       THEN LET s1 == getOrCreateState(states, k, now)
            IN states' = [s1 EXCEPT ![k].IsSuspended = TRUE,
                                    ![k].SuspendedAt = now,
                                    ![k].CooldownEnd = now + rl.suspendCooldown]
       ELSE UNCHANGED states
    /\ UNCHANGED <<otherThanRL, now, rl, wpc, wkey, wake, calls, admitLog,
                   cancelled>>

ClearTokenState(k) ==
    /\ ~Panicked
    /\ marks < MaxFailMarks
    /\ marks' = marks + 1
    /\ k \in DOMAIN states
    /\ states' = [x \in (DOMAIN states) \ {k} |-> states[x]]
    /\ admitLog' = [admitLog EXCEPT ![k] = << >>]
    /\ UNCHANGED <<otherThanRL, now, rl, wpc, wkey, wake, calls, cancelled>>

ResetSuspension(k) ==
    /\ ~Panicked
    /\ marks < MaxFailMarks
    /\ marks' = marks + 1
    /\ k \in DOMAIN states
    /\ states' = [states EXCEPT ![k].IsSuspended = FALSE,
                                ![k].SuspendedAt = ZeroTime,
                                ![k].CooldownEnd = ZeroTime,
                                ![k].FailCount = 0]
    /\ UNCHANGED <<otherThanRL, now, rl, wpc, wkey, wake, calls, admitLog,
                   cancelled>>

\* the request of a caller blocked in WaitForToken is cancelled or reaches
\* its deadline: WaitForToken takes no context and both of its waits are
\* time.Sleep, so nothing in it changes
CancelRequest(c) ==
    /\ ~Panicked
    /\ wpc[c] # "idle"
    /\ cancelled = << >>
    /\ marks < MaxFailMarks
    /\ marks' = marks + 1
    /\ cancelled' = << [caller |-> c, at |-> now] >>
    /\ UNCHANGED <<otherThanRL, now, rl, states, wpc, wkey, wake, calls, admitLog>>

\* IsTokenAvailable(tokenKey), lines 711-749
IsTokenAvailable(k) ==
    IF k \notin DOMAIN states THEN TRUE
    ELSE LET state == states[k]
         IN IF state.IsSuspended
            THEN now > state.SuspendedAt + rl.suspendCooldown
            ELSE IF now < state.CooldownEnd THEN FALSE
            ELSE resetDailyIfNeeded(state, now).DailyRequests < rl.dailyMaxRequests

\* the wall clock advances
Tick ==
    /\ now < EndNow
    /\ now' = now + 1
    /\ UNCHANGED <<rlVars, otherThanRL>>

\* ------------------------------------------------------------------------
\* Background refresher: values
\* ------------------------------------------------------------------------
Tokens == {"t1", "t2"}

\* the refresher is started RefresherElapsed ticks before the clock's end
RefresherElapsed == 1

\* runs of refreshSingle that are followed
MaxRefreshes == 2
RefresherStart == EndNow - RefresherElapsed

\* durations in ticks of 100 ms; expiresIn in seconds
StaggerDelay == 1
DefaultInterval == 600
DefaultBatchSize == 50
DefaultConcurrency == 10
DefaultExpiresIn == 3600

\* Access and refresh tokens are numbered: 0 is the empty string, 1 and 2 the
\* tokens the credential files hold at the start, 11, 12, ... and 21, 22, ...
\* the ones the provider issues for the first and the second credential.
EmptyToken == 0

\* An optional value (a pointer that may be nil): << >> or <<x>>.
Nil == << >>
Some(x) == <<x>>

\* An RFC 3339 string: the empty string, or a time to the second.
EmptyString == [set |-> FALSE, secs |-> 0]

\* time.Time.Format(time.RFC3339): the second the instant lies in
FormatRFC3339(t) == [set |-> TRUE, secs |-> t \div TicksPerSecond]

\* time.Parse(time.RFC3339, str): the start of that second, or a parse error
ParseRFC3339(str) ==
    IF str.set THEN [err |-> FALSE, t |-> str.secs * TicksPerSecond]
    ELSE [err |-> TRUE, t |-> ZeroTime]

AuthMethodOf ==
    [t \in Tokens |-> IF t = "t1" THEN <<"s","o","c","i","a","l">>
                      ELSE <<"I","d","C">>]

TokenNumber == [t \in Tokens |-> IF t = "t1" THEN 1 ELSE 2]

\* The credentials the repository holds when the refresher starts: expired,
\* expiring during the run, or valid for long; verified long ago or just now;
\* one of them possibly without an access token.
InitialTokens ==
    LET mk(t, a, e, v) ==
            [AccessToken |-> a, RefreshToken |-> TokenNumber[t], ExpiresAt |-> e,
             LastVerified |-> v, AuthMethod |-> AuthMethodOf[t]]
        long == 20 * DefaultInterval
        first == { mk("t1", 1, RefresherStart - 1, RefresherStart - DefaultInterval),
                   mk("t1", 1, RefresherStart + 1, RefresherStart - DefaultInterval),
                   mk("t1", 1, RefresherStart + long, RefresherStart),
                   mk("t1", EmptyToken, RefresherStart + 1, RefresherStart - DefaultInterval) }
        second == { mk("t2", 2, RefresherStart + 1, RefresherStart - 2 * DefaultInterval) }
    IN { [t \in Tokens |-> IF t = "t1" THEN x ELSE y] : x \in first, y \in second }

\* options given to NewBackgroundRefresher; a 0 field means the option is not
\* given, Callback tells whether WithOnTokenRefreshed is given
RefresherOptions ==
    { [Interval |-> 1, BatchSize |-> 0, Concurrency |-> 0, Callback |-> TRUE],
      [Interval |-> 1, BatchSize |-> 1, Concurrency |-> 1, Callback |-> FALSE],
      [Interval |-> 1, BatchSize |-> 0, Concurrency |-> 1, Callback |-> TRUE] }

NewBackgroundRefresher(opts) ==
    [interval    |-> IF opts.Interval # 0 THEN opts.Interval ELSE DefaultInterval,
     batchSize   |-> IF opts.BatchSize # 0 THEN opts.BatchSize ELSE DefaultBatchSize,
     concurrency |-> IF opts.Concurrency # 0 THEN opts.Concurrency
                     ELSE DefaultConcurrency,
     onTokenRefreshed |-> opts.Callback]

\* what the provider's token endpoint may answer to one refresh request
ProviderReplies ==
    { [ok |-> FALSE, newRefresh |-> FALSE, expiresIn |-> 0],
      [ok |-> TRUE, newRefresh |-> FALSE, expiresIn |-> 0],
      [ok |-> TRUE, newRefresh |-> TRUE, expiresIn |-> DefaultExpiresIn] }

\* refreshFunc of refreshSingle: the provider call chosen by the auth method
\* (RefreshTokenWithRegion, SSOOIDCClient.RefreshToken or
\* RefreshTokenWithFingerprint), given the endpoint's reply
refreshFunc(token, reply, t, n) ==
    LET authMethod == ToLower(token.AuthMethod)
        sso == authMethod \in { <<"i","d","c">>,
                                <<"b","u","i","l","d","e","r","-","i","d">> }
        expiresIn == IF ~sso /\ reply.expiresIn <= 0 THEN DefaultExpiresIn
                     ELSE reply.expiresIn
        expiresAt == t + expiresIn * TicksPerSecond
    IN IF reply.ok
       THEN [err |-> FALSE,
             data |-> Some([AccessToken |-> n,
                            RefreshToken |-> IF reply.newRefresh THEN n ELSE EmptyToken,
                            ExpiresAt |-> FormatRFC3339(expiresAt)])]
       ELSE [err |-> TRUE, data |-> Nil]

NoError == "nil"
ErrExpired == "token refresh failed and existing token is expired"

\* a fallback that does not look at the expiry
RefreshWithoutExpiryCheck(refreshed, existingAccessToken, expiresAt, t) ==
    IF ~refreshed.err
    THEN [TokenData |-> refreshed.data, Error |-> NoError, UsedFallback |-> FALSE]
    ELSE [TokenData |-> Some([AccessToken |-> existingAccessToken,
                              RefreshToken |-> EmptyToken,
                              ExpiresAt |-> FormatRFC3339(expiresAt)]),
          Error |-> NoError, UsedFallback |-> TRUE]

\* RefreshWithGracefulDegradation, given what refreshFunc returned
RefreshWithGracefulDegradation(refreshed, existingAccessToken, expiresAt, t) ==
    IF ~refreshed.err
    THEN [TokenData |-> refreshed.data, Error |-> NoError, UsedFallback |-> FALSE]
    ELSE IF existingAccessToken # EmptyToken /\ t < expiresAt
    THEN [TokenData |-> Some([AccessToken |-> existingAccessToken,
                              RefreshToken |-> EmptyToken,
                              ExpiresAt |-> FormatRFC3339(expiresAt)]),
          Error |-> NoError, UsedFallback |-> TRUE]
    ELSE [TokenData |-> Nil, Error |-> ErrExpired, UsedFallback |-> FALSE]

\* TokenRepository.FindOldestUnverified(limit): the tokens with the oldest
\* last_verified first, at most limit of them
FindOldestUnverified(limit) ==
    LET m == Min(limit, Cardinality(Tokens))
    IN { q \in [1..m -> Tokens] :
           /\ \A i, j \in 1..m : i < j =>
                 /\ q[i] # q[j]
                 /\ tok[q[i]].LastVerified <= tok[q[j]].LastVerified
           /\ \A t \in Tokens : (\A i \in 1..m : q[i] # t) =>
                 \A i \in 1..m : tok[q[i]].LastVerified <= tok[t].LastVerified }

\* the 10 minutes before expiry at which a refresh is due, in ticks
RefreshLead == 6000

\* now >= expires_at - refresh_lead
IsDue(token, t) == t >= token.ExpiresAt - RefreshLead

\* last_verified is fresh: the token was verified less than one default scan
\* period ago
IsFresh(token, t) == t - token.LastVerified < DefaultInterval

\* a fallback that leaves LastVerified alone
KeepLastVerified(token, t) == token

\* the fallback exit of refreshSingle: token.LastVerified = time.Now()
MarkVerified(token, t) == [token EXCEPT !.LastVerified = t]

IdleSingle ==
    [pc |-> "idle", outcome |-> "none", attempts |-> 0, at |-> ZeroTime,
     due |-> FALSE, res |-> Nil,
     pre |-> Nil, stored |-> FALSE, cb |-> << >>, recovered |-> Nil]

PairOf(token) == [AccessToken |-> token.AccessToken, ExpiresAt |-> token.ExpiresAt]

InFlight == { t \in Tokens : rs[t].pc \notin {"idle", "done"} }

\* ------------------------------------------------------------------------
\* Background refresher: the loop of Start and refreshBatch
\* ------------------------------------------------------------------------
\* the ticker of Start: a tick is buffered (one at most) every interval
TickerFire ==
    /\ loop.pc # "unstarted"
    /\ now >= loop.nextTick
    /\ loop' = [loop EXCEPT !.tickPending = TRUE, !.nextTick = @ + br.interval]
    /\ UNCHANGED <<now, otherThanBR, br, tok, persisted, rs, issued, installed, snap,
                   runtime, health, nextAdmit>>

\* refreshBatch, lines 129-132: the scan
refreshBatchScan ==
    /\ \/ loop.pc = "start"
       \/ loop.pc = "idle" /\ loop.tickPending
    /\ \E tokens \in FindOldestUnverified(br.batchSize) :
          loop' = [loop EXCEPT !.pc = IF Len(tokens) = 0 THEN "idle" ELSE "dispatch",
                               !.tickPending = IF loop.pc = "start" THEN @ ELSE FALSE,
                               !.batch = tokens,
                               !.i = 1,
                               !.scanAt = now]
    /\ UNCHANGED <<now, otherThanBR, br, tok, persisted, rs, issued, installed, snap,
                   runtime, health, nextAdmit>>

\* a dispatch that neither staggers nor takes a semaphore slot
refreshBatchDispatchAtOnce ==
    /\ loop.pc = "dispatch"
    /\ loop.started < MaxRefreshes
    /\ LET t == loop.batch[loop.i]
       IN /\ rs' = [rs EXCEPT ![t] = [IdleSingle EXCEPT !.pc = "call",
                                                        !.pre = Some([token |-> tok[t],
                                                                      runtime |-> runtime[t]])]]
          /\ nextAdmit' = IF nextAdmit # Nil /\ nextAdmit[1].id = t THEN Nil ELSE nextAdmit
    /\ loop' = [loop EXCEPT !.i = @ + 1,
                            !.started = @ + 1,
                            !.lastDispatch = now,
                            !.pc = IF loop.i = Len(loop.batch) THEN "wait" ELSE @]
    /\ UNCHANGED <<now, otherThanBR, br, tok, persisted, issued, installed, snap,
                   runtime, health>>

\* refreshBatch, lines 137-158: stagger, take a semaphore slot, start
\* refreshSingle on the next token of the batch
refreshBatchDispatch ==
    /\ loop.pc = "dispatch"
    /\ loop.started < MaxRefreshes
    /\ loop.i > 1 => now >= loop.lastDispatch + StaggerDelay
    /\ Cardinality(InFlight) < br.concurrency
    /\ LET t == loop.batch[loop.i]
       IN /\ rs' = [rs EXCEPT ![t] = [IdleSingle EXCEPT !.pc = "call",
                                                        !.pre = Some([token |-> tok[t],
                                                                      runtime |-> runtime[t]])]]
          /\ nextAdmit' = IF nextAdmit # Nil /\ nextAdmit[1].id = t THEN Nil ELSE nextAdmit
    /\ loop' = [loop EXCEPT !.i = @ + 1,
                            !.started = @ + 1,
                            !.lastDispatch = now,
                            !.pc = IF loop.i = Len(loop.batch) THEN "wait" ELSE @]
    /\ UNCHANGED <<now, otherThanBR, br, tok, persisted, issued, installed, snap,
                   runtime, health>>

\* refreshBatch, line 160: wg.Wait()
refreshBatchWait ==
    /\ loop.pc = "wait"
    /\ \A i \in 1..Len(loop.batch) : rs[loop.batch[i]].pc = "done"
    /\ loop' = [loop EXCEPT !.pc = "idle"]
    /\ UNCHANGED <<now, otherThanBR, br, tok, persisted, rs, issued, installed, snap,
                   runtime, health, nextAdmit>>

\* ------------------------------------------------------------------------
\* Background refresher: refreshSingle
\* ------------------------------------------------------------------------
\* lines 163-211: the provider call through RefreshWithGracefulDegradation,
\* and the failure and fallback exits
refreshSingleCall(t) ==
    /\ rs[t].pc = "call"
    /\ \E reply \in ProviderReplies :
         LET refreshed == refreshFunc(tok[t], reply, now, 10 * TokenNumber[t] + issued[t] + 1)
             result == RefreshWithGracefulDegradation(
                           refreshed, tok[t].AccessToken, tok[t].ExpiresAt, now)
             seen == [rs[t] EXCEPT !.attempts = @ + 1,
                                   !.at = now,
                                   !.due = IsDue(tok[t], now) \/ ~IsFresh(tok[t], now),
                                   !.res = Some(result)]
         IN /\ issued' = IF reply.ok THEN [issued EXCEPT ![t] = @ + 1] ELSE issued
            /\ IF result.Error # NoError
               THEN /\ rs' = [rs EXCEPT ![t] = [seen EXCEPT !.pc = "done",
                                                            !.outcome = "error"]]
                    /\ UNCHANGED <<tok, installed>>
               ELSE IF result.UsedFallback
               THEN /\ tok' = [tok EXCEPT ![t] = MarkVerified(@, now)]
                    /\ rs' = [rs EXCEPT ![t] = [seen EXCEPT !.pc = "done",
                                                            !.outcome = "fallback"]]
                    /\ UNCHANGED installed
               ELSE LET newTokenData == result.TokenData[1]
                        parsed == ParseRFC3339(newTokenData.ExpiresAt)
                    IN /\ rs' = [rs EXCEPT ![t] = [seen EXCEPT !.pc = "writeAccess"]]
                       /\ installed' = [installed EXCEPT ![t] = @ \cup
                             { [AccessToken |-> newTokenData.AccessToken,
                                ExpiresAt |-> IF parsed.err THEN tok[t].ExpiresAt
                                              ELSE parsed.t] }]
                       /\ UNCHANGED tok
    /\ UNCHANGED <<now, otherThanBR, br, persisted, loop, snap, runtime, health,
                   nextAdmit>>

\* lines 213-217: AccessToken, RefreshToken and LastVerified are written
refreshSingleWriteAccess(t) ==
    /\ rs[t].pc = "writeAccess"
    /\ LET newTokenData == rs[t].res[1].TokenData[1]
       IN tok' = [tok EXCEPT ![t].AccessToken = newTokenData.AccessToken,
                             ![t].RefreshToken =
                                 IF newTokenData.RefreshToken # EmptyToken
                                 THEN newTokenData.RefreshToken ELSE @,
                             ![t].LastVerified = now]
    /\ rs' = [rs EXCEPT ![t].pc = "writeExpires"]
    /\ UNCHANGED <<now, otherThanBR, br, persisted, loop, issued, installed, snap,
                   runtime, health, nextAdmit>>

\* lines 219-223: ExpiresAt is written
refreshSingleWriteExpires(t) ==
    /\ rs[t].pc = "writeExpires"
    /\ LET newTokenData == rs[t].res[1].TokenData[1]
           parsed == ParseRFC3339(newTokenData.ExpiresAt)
       IN IF newTokenData.ExpiresAt # EmptyString /\ ~parsed.err
          THEN tok' = [tok EXCEPT ![t].ExpiresAt = parsed.t]
          ELSE UNCHANGED tok
    /\ rs' = [rs EXCEPT ![t].pc = "update"]
    /\ UNCHANGED <<now, otherThanBR, br, persisted, loop, issued, installed, snap,
                   runtime, health, nextAdmit>>

\* an UpdateToken whose failure still reaches the callback
refreshSingleUpdateThenNotify(t) ==
    /\ rs[t].pc = "update"
    /\ \E ok \in BOOLEAN :
         IF ok
         THEN /\ persisted' = [persisted EXCEPT ![t] = tok[t]]
              /\ rs' = [rs EXCEPT ![t].pc = "callback", ![t].stored = TRUE]
         ELSE /\ rs' = [rs EXCEPT ![t].pc = "callback"]
              /\ UNCHANGED persisted
    /\ UNCHANGED <<now, otherThanBR, br, tok, loop, issued, installed, snap, runtime,
                   health, nextAdmit>>

\* lines 225-228: tokenRepo.UpdateToken(token), which may fail
refreshSingleUpdate(t) ==
    /\ rs[t].pc = "update"
    /\ \E ok \in BOOLEAN :
         IF ok
         THEN /\ persisted' = [persisted EXCEPT ![t] = tok[t]]
              /\ rs' = [rs EXCEPT ![t].pc = "callback", ![t].stored = TRUE]
         ELSE /\ rs' = [rs EXCEPT ![t].pc = "done", ![t].outcome = "updateFailed"]
              /\ UNCHANGED persisted
    /\ UNCHANGED <<now, otherThanBR, br, tok, loop, issued, installed, snap, runtime,
                   health, nextAdmit>>

\* the registered callback: the runtime replaces the token of its Auth object
OnTokenRefreshed(tokenID, tokenData) ==
    [runtime EXCEPT ![tokenID] =
        [AccessToken |-> tokenData.AccessToken,
         ExpiresAt |-> ParseRFC3339(tokenData.ExpiresAt).t]]

\* lines 230-246: the callback, if one is registered
refreshSingleCallback(t) ==
    /\ rs[t].pc = "callback"
    /\ LET newTokenData == rs[t].res[1].TokenData[1]
       IN IF br.onTokenRefreshed
          THEN /\ runtime' = OnTokenRefreshed(t, newTokenData)
               /\ rs' = [rs EXCEPT ![t].pc = "done", ![t].outcome = "refreshed",
                                   ![t].cb = Append(@, [tokenID |-> t,
                                                        tokenData |-> newTokenData])]
          ELSE /\ rs' = [rs EXCEPT ![t].pc = "done", ![t].outcome = "refreshed"]
               /\ UNCHANGED runtime
    /\ UNCHANGED <<now, otherThanBR, br, tok, persisted, loop, issued, installed, snap,
                   health, nextAdmit>>

\* a callback whose panic nothing recovers: the panic of a goroutine ends the
\* process, the loop and every refreshSingle with it
refreshSingleCallbackPanicsUnrecovered(t) ==
    /\ rs[t].pc = "callback"
    /\ br.onTokenRefreshed
    /\ rs' = [u \in Tokens |-> [rs[u] EXCEPT !.pc = "crashed"]]
    /\ loop' = [loop EXCEPT !.pc = "crashed"]
    /\ UNCHANGED <<now, otherThanBR, br, tok, persisted, issued, installed, snap,
                   runtime, health, nextAdmit>>

\* lines 235-246: the registered callback panics (before it has changed
\* anything); the deferred recover of the wrapping func() takes the panic and
\* refreshSingle returns
refreshSingleCallbackPanics(t) ==
    /\ rs[t].pc = "callback"
    /\ br.onTokenRefreshed
    /\ rs' = [rs EXCEPT ![t].pc = "done", ![t].outcome = "refreshed",
                        ![t].recovered = Some(now)]
    /\ UNCHANGED <<now, otherThanBR, br, tok, persisted, loop, issued, installed, snap,
                   runtime, health, nextAdmit>>

\* ------------------------------------------------------------------------
\* Background refresher: Stop
\* ------------------------------------------------------------------------
\* Stop(), line 124: close(r.stopCh); the caller goes on to r.wg.Wait()
Stop ==
    /\ loop.pc \notin {"unstarted", "crashed"}
    /\ loop.stop = "none"
    /\ loop' = [loop EXCEPT !.stopCh = "closed", !.stop = "waiting"]
    /\ UNCHANGED <<now, otherThanBR, br, tok, persisted, rs, issued, installed, snap,
                   runtime, health, nextAdmit>>

\* refreshBatch, lines 138-146: the select before every token but the first
\* finds stopCh closed and refreshBatch returns, without wg.Wait()
refreshBatchStopped ==
    /\ loop.pc = "dispatch"
    /\ loop.i > 1
    /\ loop.stopCh = "closed"
    /\ loop' = [loop EXCEPT !.pc = "idle"]
    /\ UNCHANGED <<now, otherThanBR, br, tok, persisted, rs, issued, installed, snap,
                   runtime, health, nextAdmit>>

\* Start, lines 114-115: the select of the loop finds stopCh closed; the
\* goroutine returns and its deferred r.wg.Done() runs
StartLoopStopped ==
    /\ loop.pc = "idle"
    /\ loop.stopCh = "closed"
    /\ loop' = [loop EXCEPT !.pc = "exited"]
    /\ UNCHANGED <<now, otherThanBR, br, tok, persisted, rs, issued, installed, snap,
                   runtime, health, nextAdmit>>

\* Stop(), line 125: r.wg.Wait() returns once the loop goroutine is done
StopReturns ==
    /\ loop.stop = "waiting"
    /\ loop.pc = "exited"
    /\ loop' = [loop EXCEPT !.stop = "returned"]
    /\ UNCHANGED <<now, otherThanBR, br, tok, persisted, rs, issued, installed, snap,
                   runtime, health, nextAdmit>>

\* ------------------------------------------------------------------------
\* The refresher's surroundings
\* ------------------------------------------------------------------------
\* a holder of the *Token reads AccessToken and ExpiresAt, once
ReadToken(t) ==
    /\ snap = Nil
    /\ snap' = Some([id |-> t, pair |-> PairOf(tok[t])])
    /\ UNCHANGED <<now, otherThanBR, br, tok, persisted, loop, rs, issued, installed,
                   runtime, health, nextAdmit>>

\* the first admission of a request for client t after its refresh ended
AdmitClient(t) ==
    /\ rs[t].pc = "done"
    /\ nextAdmit = Nil
    /\ nextAdmit' =
          Some(IF health[t] = "unhealthy"
               THEN [id |-> t, result |-> "CredentialExpired", AccessToken |-> EmptyToken]
               ELSE [id |-> t, result |-> "admitted",
                     AccessToken |-> runtime[t].AccessToken])
    /\ UNCHANGED <<now, otherThanBR, br, tok, persisted, loop, rs, issued, installed,
                   snap, runtime, health>>

\* ------------------------------------------------------------------------
\* Model registry and the model-availability handlers
\* ------------------------------------------------------------------------
Clients == {"a", "b"}
Models == {"m1", "m2"}

\* registry and management calls followed during one run
MaxRegistryOps == 2
\* times the clock is advanced during one run
MaxClockSteps == 2

\* quotaExpiredDuration := 5 * time.Minute, in ticks
quotaExpiredDuration == 3000

\* how far the clock is advanced in one step: 100 ms, or 100 ms short of the
\* quota cooldown
ClockSteps == {1, quotaExpiredDuration - 1}

\* the reasons SuspendClientModel is called with
SuspendReasons == {"", "quota", "banned"}

\* request parameters of the reset endpoint: "" is a missing model_id or
\* client_id
ResetModelIDs == Models \cup {""}
ResetClientIDs == Clients \cup {""}

\* a registration with no client in quota cooldown or suspended
NewRegistration ==
    [QuotaExceededClients |-> [c \in Clients |-> Nil],
     SuspendedClients |-> [c \in Clients |-> Nil]]

\* delete(registration.QuotaExceededClients, clientID)
withoutQuota(ms, clientID, modelID) ==
    IF modelID \in DOMAIN ms /\ clientID \in Clients
    THEN [ms EXCEPT ![modelID].QuotaExceededClients[clientID] = Nil]
    ELSE ms

\* delete(registration.SuspendedClients, clientID)
withoutSuspension(ms, clientID, modelID) ==
    IF modelID \in DOMAIN ms /\ clientID \in Clients
    THEN [ms EXCEPT ![modelID].SuspendedClients[clientID] = Nil]
    ELSE ms

\* a listing of the quota marks that never lets them expire
AllQuotaInfos(t) ==
    { [ModelID |-> modelID, ClientID |-> clientID, Reason |-> "cooldown"] :
        <<modelID, clientID>> \in
            { x \in Models \X Clients :
                models[x[1]].QuotaExceededClients[x[2]] # Nil } }

\* GetUnavailableModels, lines 38-57: the clients in quota cooldown
CooldownInfos(t) ==
    { [ModelID |-> modelID, ClientID |-> clientID, Reason |-> "cooldown"] :
        <<modelID, clientID>> \in
            { x \in Models \X Clients :
                LET quotaTime == models[x[1]].QuotaExceededClients[x[2]]
                IN quotaTime # Nil /\ t - quotaTime[1] < quotaExpiredDuration } }

\* a listing of the suspended clients that leaves out those suspended without
\* a reason
SuspendedWithReasonInfos ==
    { [ModelID |-> x[1], ClientID |-> x[2],
       Reason |-> IF models[x[1]].SuspendedClients[x[2]] = <<"quota">>
                  THEN "quota_exceeded" ELSE "suspended"] :
        x \in { y \in Models \X Clients :
                  models[y[1]].SuspendedClients[y[2]] \notin {Nil, <<"">>} } }

\* GetUnavailableModels, lines 59-86: the suspended clients
SuspendedInfos ==
    { [ModelID |-> x[1], ClientID |-> x[2],
       Reason |-> IF models[x[1]].SuspendedClients[x[2]] = <<"quota">>
                  THEN "quota_exceeded" ELSE "suspended"] :
        x \in { y \in Models \X Clients : models[y[1]].SuspendedClients[y[2]] # Nil } }

\* GET /v0/management/model-availability: the "models" list of the response
GetUnavailableModels == CooldownInfos(now) \cup SuspendedInfos

Called(name, clientID, modelID, status) ==
    [name |-> name, client |-> clientID, model |-> modelID, at |-> now,
     status |-> status]

\* registry.SetModelQuotaExceeded(clientID, modelID): a quota hit
SetModelQuotaExceeded(clientID, modelID) ==
    /\ maOps < MaxRegistryOps
    /\ maOps' = maOps + 1
    /\ models' = [models EXCEPT ![modelID].QuotaExceededClients[clientID] = Some(now)]
    /\ op' = Called("SetModelQuotaExceeded", clientID, modelID, 0)
    /\ UNCHANGED <<now, otherThanMA, maSteps, counter>>

\* registry.ClearModelQuotaExceeded(clientID, modelID)
ClearModelQuotaExceeded(clientID, modelID) ==
    /\ maOps < MaxRegistryOps
    /\ maOps' = maOps + 1
    /\ models' = withoutQuota(models, clientID, modelID)
    /\ op' = Called("ClearModelQuotaExceeded", clientID, modelID, 0)
    /\ UNCHANGED <<now, otherThanMA, maSteps, counter>>

\* registry.SuspendClientModel(clientID, modelID, reason)
SuspendClientModel(clientID, modelID, reason) ==
    /\ maOps < MaxRegistryOps
    /\ maOps' = maOps + 1
    /\ models' = [models EXCEPT ![modelID].SuspendedClients[clientID] = Some(reason)]
    /\ op' = Called("SuspendClientModel", clientID, modelID, 0)
    /\ UNCHANGED <<now, otherThanMA, maSteps, counter>>

\* registry.ResumeClientModel(clientID, modelID)
ResumeClientModel(clientID, modelID) ==
    /\ maOps < MaxRegistryOps
    /\ maOps' = maOps + 1
    /\ models' = withoutSuspension(models, clientID, modelID)
    /\ op' = Called("ResumeClientModel", clientID, modelID, 0)
    /\ UNCHANGED <<now, otherThanMA, maSteps, counter>>

\* a reset that clears the quota mark only
ResetQuotaOnly(modelID, clientID) ==
    /\ maOps < MaxRegistryOps
    /\ maOps' = maOps + 1
    /\ IF modelID = "" \/ clientID = ""
       THEN /\ op' = Called("ResetModelAvailability", clientID, modelID, 400)
            /\ UNCHANGED models
       ELSE /\ models' = withoutQuota(models, clientID, modelID)
            /\ op' = Called("ResetModelAvailability", clientID, modelID, 200)
    /\ UNCHANGED <<now, otherThanMA, maSteps, counter>>

\* POST /v0/management/model-availability/:model_id/reset with body
\* {"client_id": clientID}
ResetModelAvailability(modelID, clientID) ==
    /\ maOps < MaxRegistryOps
    /\ maOps' = maOps + 1
    /\ IF modelID = "" \/ clientID = ""
       THEN /\ op' = Called("ResetModelAvailability", clientID, modelID, 400)
            /\ UNCHANGED models
       ELSE /\ models' = withoutSuspension(withoutQuota(models, clientID, modelID),
                                          clientID, modelID)
            /\ op' = Called("ResetModelAvailability", clientID, modelID, 200)
    /\ UNCHANGED <<now, otherThanMA, maSteps, counter>>

\* the clients that provide every model, in the order the selector is
\* handed them
Candidates == <<"a", "b">>

\* Auth.Priority of the clients: a higher value is preferred
Priority == [c \in Clients |-> IF c = "a" THEN 2 ELSE 1]

\* the client hit its quota for the model within the last 5 minutes
isQuotaExceeded(c, modelID) ==
    LET quotaTime == models[modelID].QuotaExceededClients[c]
    IN quotaTime # Nil /\ now - quotaTime[1] < quotaExpiredDuration

\* the client is suspended for the model, whatever the reason
isSuspended(c, modelID) == models[modelID].SuspendedClients[c] # Nil

\* GetAvailableModels: the counts of a model's clients
availableClients(modelID) == Len(Candidates)

expiredClients(modelID) ==
    Cardinality({ c \in Clients : isQuotaExceeded(c, modelID) })

cooldownSuspended(modelID) ==
    Cardinality({ c \in Clients : models[modelID].SuspendedClients[c] = <<"quota">> })

otherSuspended(modelID) ==
    Cardinality({ c \in Clients :
                    models[modelID].SuspendedClients[c] \notin {Nil, <<"quota">>} })

effectiveClients(modelID) ==
    availableClients(modelID) - expiredClients(modelID) - otherSuspended(modelID)

\* a listing that keeps only the models with a client that can serve at once
ModelsWithEffectiveClients ==
    { modelID \in Models : effectiveClients(modelID) > 0 }

\* GetAvailableModels: the IDs of the models listed
GetAvailableModels ==
    { modelID \in Models :
        \/ effectiveClients(modelID) > 0
        \/ /\ availableClients(modelID) > 0
           /\ (expiredClients(modelID) > 0 \/ cooldownSuspended(modelID) > 0)
           /\ otherSuspended(modelID) = 0 }

\* roundRobinSelector.Select(model, candidates); "" is the nil Client
Select(modelID) ==
    /\ maOps < MaxRegistryOps
    /\ maOps' = maOps + 1
    /\ LET keep(c) == ~isSuspended(c, modelID) /\ ~isQuotaExceeded(c, modelID)
           valid == SelectSeq(Candidates, keep)
       IN IF Len(valid) = 0
          THEN /\ op' = Called("Select", "", modelID, 0)
               /\ UNCHANGED counter
          ELSE /\ counter' = counter + 1
               /\ op' = Called("Select", valid[((counter + 1) % Len(valid)) + 1],
                               modelID, 0)
    /\ UNCHANGED <<now, otherThanMA, models, maSteps>>

\* time passes
Elapse ==
    /\ maSteps < MaxClockSteps
    /\ maSteps' = maSteps + 1
    /\ \E d \in ClockSteps : now' = now + d
    /\ UNCHANGED <<otherThanMA, models, op, maOps, counter>>

\* ------------------------------------------------------------------------
\* Interactive Kiro logins (sso_oidc.go, LoginWithSocial)
\* ------------------------------------------------------------------------
LoginFlows == {"LoginWithSocial", "LoginWithIDC", "LoginWithBuilderID",
               "LoginWithBuilderIDAuthCode"}

\* the flows of the device-code grant, which poll CreateToken
DeviceCodeFlows == {"LoginWithIDC", "LoginWithBuilderID"}

\* the longest lifetime of a device code the authorization server grants
\* here, in seconds
MaxExpiresIn == 3

\* authResp.Interval and authResp.ExpiresIn of StartDeviceAuthorization, in
\* seconds; an Interval of 0 is a reply without one
ServerIntervals == {0, 1}
ServerExpiresIn == {1, MaxExpiresIn}

\* pollInterval = 5 * time.Second, in ticks
pollInterval == 50

\* interval += 5 * time.Second, in ticks
slowDownIncrement == 50

\* socialAuthTimeout = 10 * time.Minute, in ticks
socialAuthTimeout == 6000

\* time.After(10 * time.Minute) of LoginWithBuilderIDAuthCode, in ticks
authCodeTimeout == 6000

\* the replies of CreateToken to a poll
CreateTokenReplies == {"authorization_pending", "slow_down", "access_denied", "token"}

\* what ends the wait for the callback of the local HTTP server
CallbackEvents == {"timeout", "callbackError", "emptyCode", "exchangeError", "token"}

\* a login that has not been called
NotLoggingIn ==
    [flow |-> "none", pc |-> "done", browser |-> "none", serverInterval |-> 0,
     interval |-> 0, deadline |-> ZeroTime, slowDowns |-> 0, polls |-> 0,
     lastReply |-> "", result |-> ""]

\* the call of a login function
BeginLogin(flow) == [NotLoggingIn EXCEPT !.flow = flow, !.pc = "start"]

\* browser.CloseBrowser()
CloseBrowser(l) == [l EXCEPT !.browser = IF l.browser = "open" THEN "closed" ELSE @]

\* the function returns
Return(l, result) == [l EXCEPT !.pc = "done", !.result = result]

\* a step before the browser is opened fails (RegisterClient,
\* StartDeviceAuthorization, the PKCE or state generation, the callback
\* server): the function returns the error
LoginSetupFails ==
    /\ login.pc = "start"
    /\ login' = Return(login, "error")
    /\ UNCHANGED <<now, otherThanLogin>>

\* LoginWithIDC / LoginWithBuilderID up to the polling loop: the device
\* authorization is started, the browser is opened (or cannot be), interval and
\* deadline are set
StartDeviceAuthorization(Interval, ExpiresIn, opened) ==
    /\ login.pc = "start"
    /\ login.flow \in DeviceCodeFlows
    /\ login' = [login EXCEPT
                   !.pc = "poll",
                   !.browser = IF opened THEN "open" ELSE "none",
                   !.serverInterval = Interval,
                   !.interval = IF Interval > 0 THEN Interval * TicksPerSecond
                                ELSE pollInterval,
                   !.deadline = now + ExpiresIn * TicksPerSecond]
    /\ UNCHANGED <<now, otherThanLogin>>

\* a polling loop in which slow_down leaves the interval as it is
PollCreateTokenSameInterval(reply) ==
    /\ login.pc = "poll"
    /\ now < login.deadline
    /\ now' = now + login.interval
    /\ LET polled == [login EXCEPT !.polls = @ + 1, !.lastReply = reply]
       IN login' =
            CASE reply = "authorization_pending" -> polled
              [] reply = "slow_down" -> [polled EXCEPT !.slowDowns = @ + 1]
              [] reply = "token" -> Return(CloseBrowser(polled), "token")
              [] OTHER -> Return(CloseBrowser(polled), "error")
    /\ UNCHANGED otherThanLogin

\* one turn of the polling loop that takes the time.After(interval) case: the
\* wait, CreateToken and what follows its reply
PollCreateToken(reply) ==
    /\ login.pc = "poll"
    /\ now < login.deadline
    /\ now' = now + login.interval
    /\ LET polled == [login EXCEPT !.polls = @ + 1, !.lastReply = reply]
       IN login' =
            CASE reply = "authorization_pending" -> polled
              [] reply = "slow_down" ->
                    [polled EXCEPT !.slowDowns = @ + 1,
                                   !.interval = @ + slowDownIncrement]
              [] reply = "token" -> Return(CloseBrowser(polled), "token")
              [] OTHER -> Return(CloseBrowser(polled), "error")
    /\ UNCHANGED otherThanLogin

\* the polling loop ends because the deadline has passed
PollDeadline ==
    /\ login.pc = "poll"
    /\ now >= login.deadline
    /\ login' = Return(CloseBrowser(login), "timeout")
    /\ UNCHANGED <<now, otherThanLogin>>

\* LoginWithSocial / LoginWithBuilderIDAuthCode up to the wait for the
\* callback: the browser is opened on the authorization URL (or cannot be)
OpenAuthorizationURL(opened) ==
    /\ login.pc = "start"
    /\ login.flow \notin DeviceCodeFlows
    /\ login' = [login EXCEPT !.pc = "await",
                              !.browser = IF opened THEN "open" ELSE "none"]
    /\ UNCHANGED <<now, otherThanLogin>>

\* the select on the callback of LoginWithSocial and
\* LoginWithBuilderIDAuthCode, without the ctx.Done() case, and the token
\* exchange after it
WaitForCallback(event) ==
    /\ login.pc = "await"
    /\ login.flow # "LoginWithBuilderIDAuthCode" \/ event # "emptyCode"
    /\ now' = IF event # "timeout" THEN now
              ELSE IF login.flow = "LoginWithSocial" THEN now + socialAuthTimeout
              ELSE now + authCodeTimeout
    /\ LET result == IF event \in {"token", "timeout"} THEN event ELSE "error"
       IN login' =
            IF login.flow = "LoginWithSocial"
            THEN IF event = "token" THEN Return(CloseBrowser(login), result)
                 ELSE Return(login, result)
            ELSE Return(CloseBrowser(login), result)
    /\ UNCHANGED otherThanLogin

\* ctx.Done() is taken by the select the login waits in
ContextDone ==
    /\ \/ login.pc = "poll" /\ now < login.deadline
       \/ login.pc = "await"
    /\ login' = IF login.flow = "LoginWithSocial"
                THEN Return(login, "cancelled")
                ELSE Return(CloseBrowser(login), "cancelled")
    /\ UNCHANGED <<now, otherThanLogin>>

\* ------------------------------------------------------------------------
\* The local callback servers of the logins (startCallbackServer,
\* startWebCallbackServer, startAuthCodeCallbackServer)
\* ------------------------------------------------------------------------
\* the logins that wait for a browser callback
CallbackFlows == {"LoginWithSocial", "LoginWithBuilderIDAuthCode"}

\* callback requests that reach the server during one login
MaxCallbacks == 2

\* the state generated for the login
expectedState == "s1"

\* the query parameters code, state and error of a callback request; "" is
\* a missing parameter
CallbackRequests ==
    [code : {"", "c1", "c2"}, state : {"", expectedState, "s2"},
     error : {"", "access_denied"}]

\* a handler that does not compare the state
CallbackResultWithoutStateCheck(r) ==
    IF r.error # "" THEN [Code |-> "", State |-> "", Error |-> r.error]
    ELSE [Code |-> r.code, State |-> r.state, Error |-> ""]

\* the handler of /oauth/callback: the result it sends for a request
CallbackResult(r) ==
    IF r.error # "" THEN [Code |-> "", State |-> "", Error |-> r.error]
    ELSE IF r.state # expectedState
    THEN [Code |-> "", State |-> "", Error |-> "state mismatch"]
    ELSE [Code |-> r.code, State |-> r.state, Error |-> ""]

\* a login that has started its callback server and waits in its select;
\* resultChan has room for one result, and the goroutine that shuts the
\* server down waits in its own select
AwaitingCallback(flow) ==
    [flow |-> flow, pc |-> "await", resultChan |-> << >>, requests |-> 0,
     server |-> "serving", closer |-> "select", dropped |-> Nil,
     received |-> Nil, exchanged |-> Nil, result |-> ""]

\* a callback request is served: the handler sends its result on resultChan
\* (it blocks while the channel is full)
HandleCallback(r) ==
    /\ login.flow \in CallbackFlows
    /\ login.server = "serving"
    /\ login.requests < MaxCallbacks
    /\ Len(login.resultChan) < 1
    /\ login' = [login EXCEPT !.requests = @ + 1,
                              !.resultChan = Append(@, [request |-> r,
                                                        result |-> CallbackResult(r)])]
    /\ UNCHANGED <<now, otherThanLogin>>

\* the shutdown goroutine: its select takes case <-resultChan, and the
\* server is shut down
ShutdownReceives ==
    /\ login.flow \in CallbackFlows
    /\ login.closer = "select"
    /\ login.resultChan # << >>
    /\ login' = [login EXCEPT !.closer = "done", !.server = "shutdown",
                              !.resultChan = Tail(@),
                              !.dropped = Some([sent |-> Head(login.resultChan),
                                                awaited |-> login.pc = "await"])]
    /\ UNCHANGED <<now, otherThanLogin>>

\* the shutdown goroutine: ctx.Done() or the timeout, and the server is shut
\* down
ShutdownOnDone ==
    /\ login.flow \in CallbackFlows
    /\ login.closer = "select"
    /\ login' = [login EXCEPT !.closer = "done", !.server = "shutdown"]
    /\ UNCHANGED <<now, otherThanLogin>>

\* the login's select takes case <-resultChan: an error result ends the
\* login, and so does an empty code in LoginWithSocial; otherwise the code
\* goes to the token exchange
ReceiveCallback ==
    /\ login.flow \in CallbackFlows
    /\ login.pc = "await"
    /\ login.resultChan # << >>
    /\ LET sent == Head(login.resultChan)
           got == [login EXCEPT !.resultChan = Tail(@), !.received = Some(sent)]
       IN login' =
            IF sent.result.Error # "" THEN [got EXCEPT !.pc = "done", !.result = "error"]
            ELSE IF login.flow = "LoginWithSocial" /\ sent.result.Code = ""
            THEN [got EXCEPT !.pc = "done", !.result = "error"]
            ELSE [got EXCEPT !.pc = "exchange", !.exchanged = Some(sent.result.Code)]
    /\ UNCHANGED <<now, otherThanLogin>>

\* the login's select takes ctx.Done() or its timeout
GiveUpCallback(reason) ==
    /\ login.flow \in CallbackFlows
    /\ login.pc = "await"
    /\ login' = [login EXCEPT !.pc = "done", !.result = reason]
    /\ UNCHANGED <<now, otherThanLogin>>

\* CreateToken / CreateTokenWithAuthCode with the code of the callback
ExchangeCode(ok) ==
    /\ login.flow \in CallbackFlows
    /\ login.pc = "exchange"
    /\ login' = [login EXCEPT !.pc = "done",
                              !.result = IF ok THEN "token" ELSE "error"]
    /\ UNCHANGED <<now, otherThanLogin>>

\* ------------------------------------------------------------------------
\* Token expiry tests (src/unnamed/part_009)
\* ------------------------------------------------------------------------
\* how far around the thresholds the expiry times of the tokens are taken,
\* in ticks
DueWindow == 10

\* DefaultRefreshConfig(); durations in ticks
DefaultRefreshConfig ==
    [MaxRetries |-> 1,
     RetryDelay |-> TicksPerSecond,
     RefreshThreshold |-> 5 * 60 * TicksPerSecond,
     EnableGracefulDegradation |-> TRUE]

\* IsTokenExpiringSoon(expiresAt, threshold) at time t
IsTokenExpiringSoon(expiresAt, threshold, t) ==
    LET th == IF threshold = 0 THEN 5 * 60 * TicksPerSecond ELSE threshold
    IN t + th > expiresAt

\* how long before or after the call the token expires: around 5 minutes and
\* around 10 minutes after it
ExpiryOffsets ==
    { 5 * 60 * TicksPerSecond + d : d \in (0 - DueWindow)..DueWindow }
    \cup { 10 * 60 * TicksPerSecond + d : d \in (0 - DueWindow)..DueWindow }

\* the thresholds handed to IsTokenExpiringSoon: none, the default
\* configuration's, 10 minutes
Thresholds == {0, DefaultRefreshConfig.RefreshThreshold, 10 * 60 * TicksPerSecond}

\* no function has been called
NotCalled == [fn |-> "none"]

\* IsTokenExpiringSoon(expiresAt, threshold) is called and returns
CallIsTokenExpiringSoon(expiresAt, threshold) ==
    /\ call = NotCalled
    /\ call' = [fn |-> "IsTokenExpiringSoon", expiresAt |-> expiresAt,
                threshold |-> threshold, at |-> now,
                result |-> IsTokenExpiringSoon(expiresAt, threshold, now)]
    /\ UNCHANGED <<now, otherThanCall>>

\* ------------------------------------------------------------------------
\* Access control: Manager.Authenticate (src/unnamed/part_000, section 4)
\* ------------------------------------------------------------------------
\* providers of the access Manager
MaxProviders == 3

\* what a provider answers: a Result, or an AuthError of one of these codes
\* ("InternalError" stands for every other error)
AuthOutcomes == {"Authenticated", "NotHandled", "NoCredentials", "InvalidCredential",
                 "InternalError"}

\* the answers of the providers of a Manager, in the order of m.providers
ProviderAnswers == UNION { [1..n -> AuthOutcomes] : n \in 0..MaxProviders }

\* a chain that stops at the first provider that finds the credential
\* invalid
RECURSIVE AuthenticateStoppingAtInvalid(_, _, _, _)
AuthenticateStoppingAtInvalid(answers, i, missing, invalid) ==
    IF i > Len(answers)
    THEN [outcome |-> IF invalid THEN "InvalidCredential" ELSE "NoCredentials",
          asked |-> Len(answers)]
    ELSE IF answers[i] = "NotHandled"
    THEN AuthenticateStoppingAtInvalid(answers, i + 1, missing, invalid)
    ELSE IF answers[i] = "NoCredentials"
    THEN AuthenticateStoppingAtInvalid(answers, i + 1, TRUE, invalid)
    ELSE [outcome |-> answers[i], asked |-> i]

\* Manager.Authenticate from provider i on; missing and invalid record the
\* NoCredentials and InvalidCredential answers met so far
RECURSIVE Authenticate(_, _, _, _)
Authenticate(answers, i, missing, invalid) ==
    IF i > Len(answers)
    THEN [outcome |-> IF invalid THEN "InvalidCredential" ELSE "NoCredentials",
          asked |-> Len(answers)]
    ELSE IF answers[i] = "NotHandled"
    THEN Authenticate(answers, i + 1, missing, invalid)
    ELSE IF answers[i] = "NoCredentials"
    THEN Authenticate(answers, i + 1, TRUE, invalid)
    ELSE IF answers[i] = "InvalidCredential"
    THEN Authenticate(answers, i + 1, missing, TRUE)
    ELSE [outcome |-> answers[i], asked |-> i]

\* Manager.Authenticate(ctx, r) is called and returns
CallAuthenticate(answers) ==
    /\ call = NotCalled
    /\ call' = [fn |-> "Authenticate", answers |-> answers,
                result |-> Authenticate(answers, 1, FALSE, FALSE)]
    /\ UNCHANGED <<now, otherThanCall>>

\* ------------------------------------------------------------------------
\* Model mapping: DefaultModelMapper.MapModel (src/unnamed/part_000)
\* ------------------------------------------------------------------------
\* model names that are requested and the targets of the mappings
RequestedModels == {"claude-opus", "claude-sonnet"}
TargetModels == {"gemini-opus", "gemini-sonnet"}

\* thinking suffixes of a requested model; "" is none
Suffixes == {"", "high"}

\* thinking.ParseSuffix(requestedModel): the request is given parsed
ParseSuffix(requestedModel) ==
    [ModelName |-> requestedModel[1], RawSuffix |-> requestedModel[2],
     HasSuffix |-> requestedModel[2] # ""]

\* applySuffix(target, requestResult): the targets carry no suffix of their
\* own, the suffix of the request is kept
applySuffix(target, requestResult) == <<target, requestResult.RawSuffix>>

\* the regular expressions of the configuration, each given by the model
\* names it matches
Regexps == { {}, {"claude-sonnet"}, {"claude-opus", "claude-sonnet"} }

\* a DefaultModelMapper: m.mappings (exact, a partial function) and
\* m.regexps (in the order of the configuration)
ModelMappers ==
    { [mappings |-> mp, regexps |-> rx] :
        mp \in UNION { [d -> TargetModels] : d \in SUBSET RequestedModels },
        rx \in { << >> } \cup { <<[re |-> re, to |-> to]>> :
                                  re \in Regexps, to \in TargetModels } }

\* what util.GetProviderName answers for the targets: the providers of each
ProviderTables == [TargetModels -> { {}, {"gemini"} }]

\* the first regular expression that matches, 0 when none does
RECURSIVE FirstMatch(_, _, _)
FirstMatch(regexps, baseModel, i) ==
    IF i > Len(regexps) THEN 0
    ELSE IF baseModel \in regexps[i].re THEN i
    ELSE FirstMatch(regexps, baseModel, i + 1)

\* MapModel(requestedModel); << >> is the empty string it returns when no
\* mapping applies
MapModel(m, GetProviderName, requestedModel) ==
    LET requestResult == ParseSuffix(requestedModel)
        baseModel == requestResult.ModelName
        n == FirstMatch(m.regexps, baseModel, 1)
    IN IF baseModel \in DOMAIN m.mappings /\ GetProviderName[m.mappings[baseModel]] # {}
       THEN applySuffix(m.mappings[baseModel], requestResult)
       ELSE IF n > 0 THEN applySuffix(m.regexps[n].to, requestResult)
       ELSE << >>

\* MapModel(requestedModel) is called on a mapper and returns
CallMapModel(m, GetProviderName, requestedModel) ==
    /\ call = NotCalled
    /\ call' = [fn |-> "MapModel", mapper |-> m, providers |-> GetProviderName,
                requestedModel |-> requestedModel,
                result |-> MapModel(m, GetProviderName, requestedModel)]
    /\ UNCHANGED <<now, otherThanCall>>

\* ------------------------------------------------------------------------
\* Streaming requests: the bootstrap retry (src/unnamed/part_000)
\* ------------------------------------------------------------------------
\* the largest StreamingBootstrapRetries(cfg) of the configurations
MaxBootstrapRetries == 2

\* chunks of one upstream stream that are followed
MaxChunks == 2

\* the clients the AuthManager can execute the request with
StreamClients == {"a", "b", "c"}

\* no streaming request is being handled
NotStreaming ==
    [pc |-> "idle", maxBootstrapRetries |-> 0, sentPayload |-> FALSE,
     bootstrapRetries |-> 0, upstreamCalls |-> 0, client |-> "", delivered |-> 0,
     status |-> ""]

\* the handler takes a streaming request: the first
\* h.AuthManager.ExecuteStream call, which hands back the chunks of a client
ExecuteStream(retries, client) ==
    /\ stream.pc = "idle"
    /\ stream.upstreamCalls = 0
    /\ stream' = [stream EXCEPT !.pc = "streaming", !.maxBootstrapRetries = retries,
                                !.upstreamCalls = 1, !.client = client]
    /\ UNCHANGED <<now, otherThanStream>>

\* a chunk arrives and is written to the caller
ForwardChunk ==
    /\ stream.pc = "streaming"
    /\ stream.delivered < MaxChunks
    /\ stream' = [stream EXCEPT !.sentPayload = TRUE, !.delivered = @ + 1]
    /\ UNCHANGED <<now, otherThanStream>>

\* the upstream stream ends
StreamDone ==
    /\ stream.pc = "streaming"
    /\ stream' = [stream EXCEPT !.pc = "done", !.status = "ok"]
    /\ UNCHANGED <<now, otherThanStream>>

\* an error handling that retries whatever has been sent
StreamErrorRetryingAlways(retryErr, client) ==
    /\ stream.pc = "streaming"
    /\ client # stream.client
    /\ IF stream.bootstrapRetries < stream.maxBootstrapRetries
       THEN IF retryErr
            THEN stream' = [stream EXCEPT !.bootstrapRetries = @ + 1,
                                          !.upstreamCalls = @ + 1,
                                          !.client = client,
                                          !.pc = "done", !.status = "error"]
            ELSE stream' = [stream EXCEPT !.bootstrapRetries = @ + 1,
                                          !.upstreamCalls = @ + 1,
                                          !.client = client]
       ELSE stream' = [stream EXCEPT !.pc = "done", !.status = "error"]
    /\ UNCHANGED <<now, otherThanStream>>

\* the upstream stream fails: before any byte has been sent, and while
\* retries are left, ExecuteStream is called again, with another client; when
\* it succeeds the loop goes on with the new chunks, and in every other case
\* the error ends the request
StreamError(retryErr, client) ==
    /\ stream.pc = "streaming"
    /\ client # stream.client
    /\ IF ~stream.sentPayload /\ stream.bootstrapRetries < stream.maxBootstrapRetries
       THEN IF retryErr
            THEN stream' = [stream EXCEPT !.bootstrapRetries = @ + 1,
                                          !.upstreamCalls = @ + 1,
                                          !.client = client,
                                          !.pc = "done", !.status = "error"]
            ELSE stream' = [stream EXCEPT !.bootstrapRetries = @ + 1,
                                          !.upstreamCalls = @ + 1,
                                          !.client = client]
       ELSE stream' = [stream EXCEPT !.pc = "done", !.status = "error"]
    /\ UNCHANGED <<now, otherThanStream>>

\* ------------------------------------------------------------------------
\* Rate limiter: the availability test as a call
\* ------------------------------------------------------------------------
\* ticks between the earlier use of a key and the start of the run
SinceLastUse == 10

\* IsTokenAvailable(tokenKey) is called and returns; on its last path it
\* runs resetDailyIfNeeded on the state of the key
CallIsTokenAvailable(k) ==
    /\ ~Panicked
    /\ call = NotCalled
    /\ call' = [fn |-> "IsTokenAvailable", key |-> k, at |-> now,
                exists |-> k \in DOMAIN states,
                state |-> IF k \in DOMAIN states THEN states[k] ELSE NewTokenState(now),
                result |-> IsTokenAvailable(k)]
    /\ states' = IF /\ k \in DOMAIN states
                    /\ ~states[k].IsSuspended
                    /\ ~(now < states[k].CooldownEnd)
                 THEN [states EXCEPT ![k] = resetDailyIfNeeded(states[k], now)]
                 ELSE states
    /\ UNCHANGED <<now, rl, wpc, wkey, wake, calls, marks, admitLog, cancelled,
                   brVars, gdVars, maVars, loginVars, streamVars, statsVars>>

\* what a key has been through SinceLastUse ticks before the run: nothing,
\* one admitted request, one admitted request and a suspension, one failed
\* request
UsedKeyHistories(cfg) ==
    LET t == StartNow - SinceLastUse
        fresh == NewTokenState(t)
        admitted == [fresh EXCEPT !.LastRequest = t, !.RequestCount = 1,
                                  !.DailyRequests = 1]
    IN {<< >>, <<admitted>>,
        <<[admitted EXCEPT !.IsSuspended = TRUE, !.SuspendedAt = t,
                           !.CooldownEnd = t + cfg.suspendCooldown]>>}
       \cup { <<[admitted EXCEPT !.FailCount = 1, !.CooldownEnd = t + backoff]>> :
              backoff \in calculateBackoff(cfg, 1) }

\* ------------------------------------------------------------------------
\* RefreshWithRetry (src/unnamed/part_009)
\* ------------------------------------------------------------------------
\* the largest MaxRetries of the configurations
MaxRetriesGiven == 2

\* RefreshConfig values RefreshWithRetry is called with; MaxRetries may be
\* negative, RetryDelay zero
RetryConfigs ==
    { [DefaultRefreshConfig EXCEPT !.MaxRetries = r, !.RetryDelay = d] :
        r \in (0 - 1)..MaxRetriesGiven, d \in {0, 2} }

\* maxAttempts := config.MaxRetries + 1, at least 1
maxAttemptsOf(config) ==
    IF config.MaxRetries + 1 < 1 THEN 1 ELSE config.MaxRetries + 1

\* what RefreshWithRetry returns: the token of an attempt, ctx.Err(), or
\* "token refresh failed after n attempts" wrapping the error of an attempt
Returned(kind, attempt) == [kind |-> kind, attempt |-> attempt]

\* RefreshWithRetry(ctx, refreshFunc, config) is called: the first attempt
\* is about to be made
CallRefreshWithRetry(config, ctxDone) ==
    /\ call = NotCalled
    /\ call' = [fn |-> "RefreshWithRetry", config |-> config,
                maxAttempts |-> maxAttemptsOf(config), pc |-> "attempt",
                attempt |-> 1, called |-> 0, lastErr |-> 0, lastAt |-> ZeroTime,
                delays |-> 0, wakeAt |-> ZeroTime, ctxDone |-> ctxDone,
                result |-> Nil, returnedAt |-> ZeroTime]
    /\ UNCHANGED <<now, otherThanCall>>

\* a loop that waits RetryDelay after every failed attempt, the last one
\* included
refreshFuncReturnsSleepingAlways(ok) ==
    /\ call.fn = "RefreshWithRetry"
    /\ call.pc = "attempt"
    /\ LET tried == [call EXCEPT !.called = @ + 1, !.lastAt = now]
       IN IF ok
          THEN call' = [tried EXCEPT !.pc = "returned",
                                     !.result = Some(Returned("token", call.attempt)),
                                     !.returnedAt = now]
          ELSE call' = [tried EXCEPT !.lastErr = call.attempt, !.pc = "delay",
                                     !.delays = @ + 1,
                                     !.wakeAt = now + call.config.RetryDelay]
    /\ UNCHANGED <<now, otherThanCall>>

\* lines 136-152: refreshFunc(ctx) returns; on success its token is returned;
\* on failure the error is kept and, unless this was the last attempt, the
\* select on ctx.Done() and time.After(config.RetryDelay) is entered, which
\* an already cancelled context ends at once when the delay is positive;
\* after the last attempt the loop ends and the wrapped error is returned
refreshFuncReturns(ok) ==
    /\ call.fn = "RefreshWithRetry"
    /\ call.pc = "attempt"
    /\ LET tried == [call EXCEPT !.called = @ + 1, !.lastAt = now]
           failed == [tried EXCEPT !.lastErr = call.attempt]
       IN IF ok
          THEN call' = [tried EXCEPT !.pc = "returned",
                                     !.result = Some(Returned("token", call.attempt)),
                                     !.returnedAt = now]
          ELSE IF call.attempt < call.maxAttempts
          THEN IF call.ctxDone /\ call.config.RetryDelay > 0
               THEN call' = [failed EXCEPT !.pc = "returned", !.delays = @ + 1,
                                           !.result = Some(Returned("ctx.Err()", 0)),
                                           !.returnedAt = now]
               ELSE call' = [failed EXCEPT !.pc = "delay", !.delays = @ + 1,
                                           !.wakeAt = now + call.config.RetryDelay]
          ELSE call' = [failed EXCEPT !.pc = "returned",
                                      !.result = Some(Returned("failed after",
                                                               call.attempt)),
                                      !.returnedAt = now]
    /\ UNCHANGED <<now, otherThanCall>>

\* line 151: time.After(config.RetryDelay) fires and the next attempt begins
RetryDelayOver ==
    /\ call.fn = "RefreshWithRetry"
    /\ call.pc = "delay"
    /\ now >= call.wakeAt
    /\ call' = [call EXCEPT !.pc = "attempt", !.attempt = @ + 1]
    /\ UNCHANGED <<now, otherThanCall>>

\* lines 149-150: the select finds ctx.Done() ready, together with the timer
RetryCancelled ==
    /\ call.fn = "RefreshWithRetry"
    /\ call.pc = "delay"
    /\ call.ctxDone
    /\ call' = [call EXCEPT !.pc = "returned",
                            !.result = Some(Returned("ctx.Err()", 0)),
                            !.returnedAt = now]
    /\ UNCHANGED <<now, otherThanCall>>

\* the caller's context is cancelled; a RefreshWithRetry that waits in its
\* select with the timer still running is woken by it and returns ctx.Err()
CancelContext ==
    /\ call.fn = "RefreshWithRetry"
    /\ call.pc # "returned"
    /\ ~call.ctxDone
    /\ IF call.pc = "delay" /\ now < call.wakeAt
       THEN call' = [call EXCEPT !.ctxDone = TRUE, !.pc = "returned",
                                 !.result = Some(Returned("ctx.Err()", 0)),
                                 !.returnedAt = now]
       ELSE call' = [call EXCEPT !.ctxDone = TRUE]
    /\ UNCHANGED <<now, otherThanCall>>

\* ------------------------------------------------------------------------
\* Usage statistics kept in Redis (internal/usage/stats.go)
\* ------------------------------------------------------------------------
\* goroutines calling Record
Recorders == {"r1", "r2"}

\* bound on the Record calls of a behaviour
MaxRecords == 3

\* bound on the request details of an imported snapshot
MaxDetails == 2

\* bound on the MergeSnapshot calls of a behaviour
MaxMerges == 2

\* StatisticsSnapshot{}: the totals and, in Details, the request details of
\* every API and model, each carrying the API and model name it is filed
\* under.  The counters per API, per model, per day and per hour are
\* incremented together with the totals and are not represented.
EmptySnapshot ==
    [TotalRequests |-> 0, SuccessCount |-> 0, FailureCount |-> 0,
     TotalTokens |-> 0, Details |-> << >>]

TokenStats(input, output, total) ==
    [InputTokens |-> input, OutputTokens |-> output, ReasoningTokens |-> 0,
     CachedTokens |-> 0, TotalTokens |-> total]

\* normalizeRecordDetail (lines 458-473), on the token counts of a record
normalizeRecordDetail(tokens) ==
    LET t1 == IF tokens.TotalTokens = 0
              THEN [tokens EXCEPT !.TotalTokens = tokens.InputTokens
                        + tokens.OutputTokens + tokens.ReasoningTokens]
              ELSE tokens
    IN IF t1.TotalTokens = 0
       THEN [t1 EXCEPT !.TotalTokens = t1.InputTokens + t1.OutputTokens
                 + t1.ReasoningTokens + t1.CachedTokens]
       ELSE t1

\* normaliseTokenStats, called at line 329: fills in a missing total the way
\* normalizeRecordDetail does
normaliseTokenStats(tokens) == normalizeRecordDetail(tokens)

\* normalizeAPIKey (lines 475-480)
normalizeAPIKey(apiKey) == IF apiKey = "" THEN "" ELSE apiKey

\* normalizeModelName (lines 482-487)
normalizeModelName(modelName) == IF modelName = "" THEN "" ELSE modelName

\* dedupKey, called at lines 303 and 333: the identity of a request detail,
\* made of the API name, the model name, the instant of the request, the
\* failure flag and the normalised token counts
dedupKey(apiName, modelName, detail) ==
    <<apiName, modelName, detail.Timestamp, detail.Failed,
      normaliseTokenStats(detail.Tokens)>>

\* the totals of a snapshot
Totals(snapshot) ==
    <<snapshot.TotalRequests, snapshot.SuccessCount, snapshot.FailureCount,
      snapshot.TotalTokens>>

\* the part of Record between Snapshot and saveSnapshot (lines 115-198): one
\* more request, counted as a success or a failure, its tokens and its detail
RecordInto(snapshot, record, at) ==
    LET tokens == normalizeRecordDetail(record.Tokens)
        detail == [api |-> IF record.APIKey = "" THEN "unknown" ELSE record.APIKey,
                   model |-> IF record.Model = "" THEN "unknown" ELSE record.Model,
                   Timestamp |-> IF record.RequestedAt = ZeroTime THEN at
                                 ELSE record.RequestedAt,
                   Failed |-> record.Failed,
                   Tokens |-> tokens]
    IN [TotalRequests |-> snapshot.TotalRequests + 1,
        SuccessCount |-> snapshot.SuccessCount + (IF record.Failed THEN 0 ELSE 1),
        FailureCount |-> snapshot.FailureCount + (IF record.Failed THEN 1 ELSE 0),
        TotalTokens |-> snapshot.TotalTokens + tokens.TotalTokens,
        Details |-> Append(snapshot.Details, detail)]

\* recordImported (lines 349-400)
recordImported(snapshot, apiName, modelName, detail) ==
    LET totalTokens == IF detail.Tokens.TotalTokens < 0 THEN 0
                       ELSE detail.Tokens.TotalTokens
    IN [TotalRequests |-> snapshot.TotalRequests + 1,
        SuccessCount |-> snapshot.SuccessCount + (IF detail.Failed THEN 0 ELSE 1),
        FailureCount |-> snapshot.FailureCount + (IF detail.Failed THEN 1 ELSE 0),
        TotalTokens |-> snapshot.TotalTokens + totalTokens,
        Details |-> Append(snapshot.Details,
                           [detail EXCEPT !.api = apiName, !.model = modelName])]

\* the loop of mergeSnapshots over the details of the source (lines 313-344):
\* a detail under an empty API name is passed over, one whose key was seen is
\* skipped, any other is recorded
RECURSIVE mergeDetails(_, _, _, _, _)
mergeDetails(target, seen, result, source, at) ==
    IF source = << >> THEN [target |-> target, result |-> result]
    ELSE LET d == Head(source)
             apiName == normalizeAPIKey(d.api)
             modelName == IF normalizeModelName(d.model) = "" THEN "unknown"
                          ELSE normalizeModelName(d.model)
             detail == [d EXCEPT !.Tokens = normaliseTokenStats(d.Tokens),
                                 !.Timestamp = IF d.Timestamp = ZeroTime THEN at
                                               ELSE d.Timestamp]
             key == dedupKey(apiName, modelName, detail)
         IN IF apiName = ""
            THEN mergeDetails(target, seen, result, Tail(source), at)
            ELSE IF key \in seen
            THEN mergeDetails(target, seen,
                              [result EXCEPT !.Skipped = @ + 1], Tail(source), at)
            ELSE mergeDetails(recordImported(target, apiName, modelName, detail),
                              seen \cup {key},
                              [result EXCEPT !.Added = @ + 1], Tail(source), at)

\* the keys of the details a snapshot holds (lines 296-307)
SeenIn(target) ==
    { dedupKey(target.Details[i].api, target.Details[i].model, target.Details[i]) :
          i \in 1..Len(target.Details) }

\* mergeSnapshots without the keys of the target (not the code)
mergeSnapshotsIgnoringTarget(target, source, at) ==
    mergeDetails(target, {}, [Added |-> 0, Skipped |-> 0], source, at)

\* mergeSnapshots (lines 292-347), called at time `at`
mergeSnapshots(target, source, at) ==
    mergeDetails(target, SeenIn(target), [Added |-> 0, Skipped |-> 0], source, at)

\* the request details an imported snapshot can hold
ImportedDetails ==
    { [api |-> a, model |-> mo, Timestamp |-> ts, Failed |-> f.failed, Tokens |-> f.tokens] :
        a \in {"", "k1"}, mo \in {"", "m1"}, ts \in {ZeroTime, StartNow - 10},
        f \in { [failed |-> FALSE, tokens |-> TokenStats(1, 1, 0)],
                [failed |-> FALSE, tokens |-> TokenStats(1, 1, 2)],
                [failed |-> TRUE, tokens |-> TokenStats(0, 0, 0 - 1)] } }

\* the imported snapshots: the details of their APIs and models, in the
\* order the loops of mergeSnapshots visit them
ImportedSnapshots ==
    UNION { [1..n -> ImportedDetails] : n \in 0..MaxDetails }

NotRecording == [pc |-> "idle", snapshot |-> EmptySnapshot, failed |-> FALSE]

NoMerge ==
    [count |-> 0, source |-> << >>, result |-> [Added |-> 0, Skipped |-> 0],
     before |-> EmptySnapshot, after |-> EmptySnapshot]

NoStatistics ==
    [redis |-> EmptySnapshot, rec |-> [r \in Recorders |-> NotRecording],
     started |-> 0, completed |-> 0, merge |-> NoMerge]

\* Record, lines 103-115: the client is there and Snapshot() has read the
\* statistics from Redis
RecordSnapshot(r, failed) ==
    /\ stats.rec[r].pc = "idle"
    /\ stats.started < MaxRecords
    /\ stats' = [stats EXCEPT !.rec[r] = [pc |-> "loaded", snapshot |-> stats.redis,
                                         failed |-> failed],
                              !.started = @ + 1]
    /\ UNCHANGED <<now, otherThanStats>>

\* Record, lines 116-201: the snapshot read earlier is updated and
\* saveSnapshot writes it over what Redis holds; Record returns
RecordSave(r) ==
    /\ stats.rec[r].pc = "loaded"
    /\ stats' = [stats EXCEPT
          !.redis = RecordInto(stats.rec[r].snapshot,
                               [APIKey |-> "k1", Model |-> "m1",
                                RequestedAt |-> ZeroTime,
                                Failed |-> stats.rec[r].failed,
                                Tokens |-> TokenStats(1, 1, 0)], now),
          !.rec[r] = NotRecording,
          !.completed = @ + 1]
    /\ UNCHANGED <<now, otherThanStats>>

\* MergeSnapshot (lines 283-290): the statistics are read, the source is
\* merged into them and the outcome is saved.  After the first call the same
\* snapshot is merged again.  The call may take a tick.
MergeSnapshot(source) ==
    /\ stats.merge.count < MaxMerges
    /\ stats.merge.count > 0 => source = stats.merge.source
    /\ LET current == stats.redis
           merged == mergeSnapshots(current, source, now)
       IN stats' = [stats EXCEPT
             !.redis = merged.target,
             !.merge = [count |-> stats.merge.count + 1, source |-> source,
                        result |-> merged.result, before |-> current,
                        after |-> merged.target]]
    /\ \E d \in {0, 1} : now + d <= EndNow /\ now' = now + d
    /\ UNCHANGED otherThanStats

\* ------------------------------------------------------------------------
\* Specifications
\* ------------------------------------------------------------------------
\* no usage statistics are recorded or merged
NoStats == stats = NoStatistics

\* no registry traffic
NoRegistry ==
    /\ models = [modelID \in Models |-> NewRegistration]
    /\ op = [name |-> "none", client |-> "", model |-> "", at |-> ZeroTime, status |-> 0]
    /\ maOps = 0
    /\ counter = 0
    /\ maSteps = 0

\* no login runs
NoLogin == login = NotLoggingIn

\* no function is called on its own
NoCall == call = NotCalled

\* no streaming request is handled
NoStream == stream = NotStreaming

\* no refresher runs
NoRefresher ==
    /\ br = NewBackgroundRefresher(
                [Interval |-> 0, BatchSize |-> 0, Concurrency |-> 0, Callback |-> FALSE])
    /\ tok = [t \in Tokens |-> [AccessToken |-> EmptyToken, RefreshToken |-> EmptyToken,
                                ExpiresAt |-> ZeroTime, LastVerified |-> ZeroTime,
                                AuthMethod |-> AuthMethodOf[t]]]
    /\ persisted = tok
    /\ loop = [pc |-> "unstarted", batch |-> << >>, i |-> 1, started |-> 0, lastDispatch |-> ZeroTime,
               scanAt |-> ZeroTime, nextTick |-> ZeroTime, tickPending |-> FALSE,
               stopCh |-> "open", stop |-> "none"]
    /\ rs = [t \in Tokens |-> IdleSingle]
    /\ issued = [t \in Tokens |-> 0]
    /\ installed = [t \in Tokens |-> {}]
    /\ snap = Nil
    /\ runtime = [t \in Tokens |-> [AccessToken |-> EmptyToken, ExpiresAt |-> ZeroTime]]
    /\ health = [t \in Tokens |-> "healthy"]
    /\ nextAdmit = Nil

\* no call of RefreshWithGracefulDegradation on its own
NoDegradationCall ==
    gd = [refreshed |-> [err |-> TRUE, data |-> Nil], existingAccessToken |-> EmptyToken,
          expiresAt |-> ZeroTime, result |-> Nil]

\* no rate limiter traffic
NoLimiter ==
    /\ rl = NewRateLimiter
    /\ states = << >>
    /\ wpc = [c \in Callers |-> "idle"]
    /\ wkey = [c \in Callers |-> "k1"]
    /\ wake = [c \in Callers |-> ZeroTime]
    /\ calls = 0
    /\ marks = 0
    /\ admitLog = [k \in TwoKeys |-> << >>]
    /\ cancelled = << >>

InitRL ==
    /\ NoLogin
    /\ NoCall
    /\ NoStream
    /\ NoStats
    /\ now = StartNow
    /\ rl \in { NewRateLimiterWithConfig(cfg) : cfg \in RLConfigs }
    /\ states = << >>
    /\ wpc = [c \in Callers |-> "idle"]
    /\ wkey = [c \in Callers |-> "k1"]
    /\ wake = [c \in Callers |-> ZeroTime]
    /\ calls = 0
    /\ marks = 0
    /\ admitLog = [k \in TwoKeys |-> << >>]
    /\ cancelled = << >>
    /\ NoRefresher
    /\ NoDegradationCall
    /\ NoRegistry

NextRL ==
    \/ \E c \in Callers, k \in Keys : WaitForTokenEnter(c, k)
    \/ \E c \in Callers : WaitForTokenAfterCooldown(c)
    \/ \E c \in Callers : WaitForTokenAfterInterval(c)
    \/ \E k \in Keys : MarkTokenFailed(k)
    \/ \E k \in Keys : MarkTokenSuccess(k)
    \/ \E k \in Keys, m \in ErrorMsgs : CheckAndMarkSuspended(k, m)
    \/ \E k \in Keys : ClearTokenState(k)
    \/ \E k \in Keys : ResetSuspension(k)
    \/ \E c \in Callers : CancelRequest(c)
    \/ Tick

SpecRL == InitRL /\ [][NextRL]_vars

\* consecutive MarkTokenFailed calls for a key that are followed
MaxFailCount == 50

\* a limiter on which key k1 has failed n times in a row, for any n below
\* MaxFailCount
InitBackoff ==
    /\ NoLogin
    /\ NoCall
    /\ NoStream
    /\ NoStats
    /\ now = StartNow
    /\ rl \in { NewRateLimiterWithConfig(cfg) : cfg \in RLConfigs }
    /\ \E n \in 0..(MaxFailCount - 1) :
          IF n = 0 THEN states = << >>
          ELSE \E backoff \in calculateBackoff(rl, n) :
                 states = ("k1" :> [NewTokenState(StartNow) EXCEPT
                                      !.FailCount = n,
                                      !.CooldownEnd = StartNow + backoff])
    /\ wpc = [c \in Callers |-> "idle"]
    /\ wkey = [c \in Callers |-> "k1"]
    /\ wake = [c \in Callers |-> ZeroTime]
    /\ calls = 0
    /\ marks = 0
    /\ admitLog = [k \in TwoKeys |-> << >>]
    /\ cancelled = << >>
    /\ NoRefresher
    /\ NoDegradationCall
    /\ NoRegistry

\* one more failure
NextBackoff == \E k \in Keys : MarkTokenFailed(k)

SpecBackoff == InitBackoff /\ [][NextBackoff]_vars

\* what the limiter may hold for one key after some use at StartNow: nothing,
\* the state after one admission, after one failure, or after one admission
\* and a suspension
KeyHistories(cfg) ==
    LET fresh == NewTokenState(StartNow)
        admitted == [fresh EXCEPT !.LastRequest = StartNow, !.RequestCount = 1,
                                  !.DailyRequests = 1]
    IN {<< >>, <<admitted>>,
        <<[admitted EXCEPT !.IsSuspended = TRUE, !.SuspendedAt = StartNow,
                           !.CooldownEnd = StartNow + cfg.suspendCooldown]>>}
       \cup { <<[fresh EXCEPT !.FailCount = 1, !.CooldownEnd = StartNow + backoff]>> :
              backoff \in calculateBackoff(cfg, 1) }

\* a limiter that has been used for two keys
InitKeys ==
    /\ NoLogin
    /\ NoCall
    /\ NoStream
    /\ NoStats
    /\ now = StartNow
    /\ rl \in { NewRateLimiterWithConfig(cfg) : cfg \in RLConfigs }
    /\ \E h \in [TwoKeys -> KeyHistories(rl)] :
          states = [k \in { x \in TwoKeys : h[x] # << >> } |-> h[k][1]]
    /\ wpc = [c \in Callers |-> "idle"]
    /\ wkey = [c \in Callers |-> "k1"]
    /\ wake = [c \in Callers |-> ZeroTime]
    /\ calls = 0
    /\ marks = 0
    /\ admitLog = [k \in TwoKeys |-> << >>]
    /\ cancelled = << >>
    /\ NoRefresher
    /\ NoDegradationCall
    /\ NoRegistry

\* the marking operations on two keys
NextKeys ==
    \/ \E k \in TwoKeys : MarkTokenFailed(k)
    \/ \E k \in TwoKeys : MarkTokenSuccess(k)
    \/ \E k \in TwoKeys, m \in KeywordMsgs : CheckAndMarkSuspended(k, m)
    \/ \E k \in TwoKeys : ClearTokenState(k)
    \/ \E k \in TwoKeys : ResetSuspension(k)

SpecKeys == InitKeys /\ [][NextKeys]_vars

\* NewBackgroundRefresher(repo, opts...) followed by Start(ctx)
InitBR ==
    /\ NoLogin
    /\ NoCall
    /\ NoStream
    /\ NoStats
    /\ now = RefresherStart
    /\ NoLimiter
    /\ NoDegradationCall
    /\ NoRegistry
    /\ br \in { NewBackgroundRefresher(opts) : opts \in RefresherOptions }
    /\ tok \in InitialTokens
    /\ persisted = tok
    /\ loop = [pc |-> "start", batch |-> << >>, i |-> 1, started |-> 0, lastDispatch |-> ZeroTime,
               scanAt |-> ZeroTime, nextTick |-> RefresherStart + br.interval,
               tickPending |-> FALSE, stopCh |-> "open", stop |-> "none"]
    /\ rs = [t \in Tokens |-> IdleSingle]
    /\ issued = [t \in Tokens |-> 0]
    /\ installed = [t \in Tokens |-> {PairOf(tok[t])}]
    /\ snap = Nil
    /\ runtime = [t \in Tokens |-> PairOf(tok[t])]
    /\ health = [t \in Tokens |-> "healthy"]
    /\ nextAdmit = Nil

NextBR ==
    \/ TickerFire
    \/ refreshBatchScan
    \/ refreshBatchDispatch
    \/ refreshBatchWait
    \/ \E t \in Tokens : refreshSingleCall(t)
    \/ \E t \in Tokens : refreshSingleWriteAccess(t)
    \/ \E t \in Tokens : refreshSingleWriteExpires(t)
    \/ \E t \in Tokens : refreshSingleUpdate(t)
    \/ \E t \in Tokens : refreshSingleCallback(t)
    \/ \E t \in Tokens : ReadToken(t)
    \/ \E t \in Tokens : AdmitClient(t)
    \/ Tick

SpecBR == InitBR /\ [][NextBR]_vars

\* the refresher and a caller of Stop
NextStop ==
    \/ TickerFire
    \/ refreshBatchScan
    \/ refreshBatchDispatch
    \/ refreshBatchWait
    \/ \E t \in Tokens : refreshSingleCall(t)
    \/ \E t \in Tokens : refreshSingleWriteAccess(t)
    \/ \E t \in Tokens : refreshSingleWriteExpires(t)
    \/ \E t \in Tokens : refreshSingleUpdate(t)
    \/ \E t \in Tokens : refreshSingleCallback(t)
    \/ Stop
    \/ refreshBatchStopped
    \/ StartLoopStopped
    \/ StopReturns
    \/ Tick

SpecStop == InitBR /\ [][NextStop]_vars

\* a refresher with a callback; both tokens are refreshed by the provider
InitPanic ==
    /\ InitBR
    /\ br.onTokenRefreshed
    /\ br.concurrency = DefaultConcurrency
    /\ tok["t1"].AccessToken # EmptyToken
    /\ tok["t1"].ExpiresAt = RefresherStart + 1

\* the refresher with a callback that may panic
NextPanic ==
    \/ TickerFire
    \/ refreshBatchScan
    \/ refreshBatchDispatch
    \/ refreshBatchWait
    \/ \E t \in Tokens : refreshSingleCall(t)
    \/ \E t \in Tokens : refreshSingleWriteAccess(t)
    \/ \E t \in Tokens : refreshSingleWriteExpires(t)
    \/ \E t \in Tokens : refreshSingleUpdate(t)
    \/ \E t \in Tokens : refreshSingleCallback(t)
    \/ \E t \in Tokens : refreshSingleCallbackPanics(t)
    \/ Tick

SpecPanic == InitPanic /\ [][NextPanic]_vars

\* RefreshWithGracefulDegradation(ctx, refreshFunc, existingAccessToken,
\* expiresAt) is called and returns
CallRefreshWithGracefulDegradation ==
    /\ gd.result = Nil
    /\ gd' = [gd EXCEPT !.result = Some(RefreshWithGracefulDegradation(
                  gd.refreshed, gd.existingAccessToken, gd.expiresAt, now))]
    /\ UNCHANGED <<now, otherThanGD>>

\* the arguments: what refreshFunc will return, an access token or none, an
\* expiry before, at or after the time of the call
InitGD ==
    /\ NoLogin
    /\ NoCall
    /\ NoStream
    /\ NoStats
    /\ now \in StartNow..EndNow
    /\ NoLimiter
    /\ NoRefresher
    /\ NoRegistry
    /\ \E reply \in ProviderReplies, t \in Tokens, a \in {EmptyToken, 1},
          e \in StartNow..EndNow :
          gd = [refreshed |-> refreshFunc([AuthMethod |-> AuthMethodOf[t]], reply, now, 11),
                existingAccessToken |-> a, expiresAt |-> e, result |-> Nil]

NextGD == CallRefreshWithGracefulDegradation

SpecGD == InitGD /\ [][NextGD]_vars

\* the registry with its models registered and no client marked
InitMA ==
    /\ NoLogin
    /\ NoCall
    /\ NoStream
    /\ NoStats
    /\ now = StartNow
    /\ NoLimiter
    /\ NoRefresher
    /\ NoDegradationCall
    /\ NoRegistry

NextMA ==
    \/ \E c \in Clients, modelID \in Models : SetModelQuotaExceeded(c, modelID)
    \/ \E c \in Clients, modelID \in Models : ClearModelQuotaExceeded(c, modelID)
    \/ \E c \in Clients, modelID \in Models, reason \in SuspendReasons :
          SuspendClientModel(c, modelID, reason)
    \/ \E c \in Clients, modelID \in Models : ResumeClientModel(c, modelID)
    \/ \E modelID \in ResetModelIDs, c \in ResetClientIDs :
          ResetModelAvailability(modelID, c)
    \/ \E modelID \in Models : Select(modelID)
    \/ Elapse

SpecMA == InitMA /\ [][NextMA]_vars

\* one call of one of the login functions
InitLogin ==
    /\ now = StartNow
    /\ NoLimiter
    /\ NoRefresher
    /\ NoDegradationCall
    /\ NoRegistry
    /\ NoCall
    /\ NoStream
    /\ NoStats
    /\ \E flow \in LoginFlows : login = BeginLogin(flow)

NextLogin ==
    \/ LoginSetupFails
    \/ \E Interval \in ServerIntervals, ExpiresIn \in ServerExpiresIn, opened \in BOOLEAN :
          StartDeviceAuthorization(Interval, ExpiresIn, opened)
    \/ \E reply \in CreateTokenReplies : PollCreateToken(reply)
    \/ PollDeadline
    \/ \E opened \in BOOLEAN : OpenAuthorizationURL(opened)
    \/ \E event \in CallbackEvents : WaitForCallback(event)
    \/ ContextDone

SpecLogin == InitLogin /\ [][NextLogin]_vars

\* a login waiting for its callback
InitCallbackLogin ==
    /\ now = StartNow
    /\ NoLimiter
    /\ NoRefresher
    /\ NoDegradationCall
    /\ NoRegistry
    /\ NoCall
    /\ NoStream
    /\ NoStats
    /\ login \in { AwaitingCallback(flow) : flow \in CallbackFlows }

NextCallbackLogin ==
    \/ \E r \in CallbackRequests : HandleCallback(r)
    \/ ShutdownReceives
    \/ ShutdownOnDone
    \/ ReceiveCallback
    \/ \E reason \in {"cancelled", "timeout"} : GiveUpCallback(reason)
    \/ \E ok \in BOOLEAN : ExchangeCode(ok)

SpecCallback == InitCallbackLogin /\ [][NextCallbackLogin]_vars

\* nothing runs but one call of a function
InitCall ==
    /\ now = StartNow
    /\ NoLimiter
    /\ NoRefresher
    /\ NoDegradationCall
    /\ NoRegistry
    /\ NoLogin
    /\ NoCall
    /\ NoStream
    /\ NoStats

\* one call of IsTokenExpiringSoon
NextDue ==
    \E d \in ExpiryOffsets, threshold \in Thresholds :
        CallIsTokenExpiringSoon(now + d, threshold)

SpecDue == InitCall /\ [][NextDue]_vars

\* one call of Manager.Authenticate
NextAccess == \E answers \in ProviderAnswers : CallAuthenticate(answers)

SpecAccess == InitCall /\ [][NextAccess]_vars

\* one call of MapModel
NextMapper ==
    \E m \in ModelMappers, GetProviderName \in ProviderTables,
       requestedModel \in RequestedModels \X Suffixes :
        CallMapModel(m, GetProviderName, requestedModel)

SpecMapper == InitCall /\ [][NextMapper]_vars

\* one streaming request
NextStream ==
    \/ \E retries \in 0..MaxBootstrapRetries, client \in StreamClients :
          ExecuteStream(retries, client)
    \/ ForwardChunk
    \/ StreamDone
    \/ \E retryErr \in BOOLEAN, client \in StreamClients : StreamError(retryErr, client)

SpecStream == InitCall /\ [][NextStream]_vars

\* one call of RefreshWithRetry
NextRetry ==
    \/ \E config \in RetryConfigs, ctxDone \in BOOLEAN :
          CallRefreshWithRetry(config, ctxDone)
    \/ \E ok \in BOOLEAN : refreshFuncReturns(ok)
    \/ RetryDelayOver
    \/ RetryCancelled
    \/ CancelContext
    \/ Tick

SpecRetry == InitCall /\ [][NextRetry]_vars

\* a limiter whose keys were used some time ago
InitAvail ==
    /\ NoLogin
    /\ NoCall
    /\ NoStream
    /\ NoStats
    /\ now = StartNow
    /\ rl \in { NewRateLimiterWithConfig(cfg) : cfg \in RLConfigs }
    /\ \E h \in [TwoKeys -> UsedKeyHistories(rl)] :
          states = [k \in { x \in TwoKeys : h[x] # << >> } |-> h[k][1]]
    /\ wpc = [c \in Callers |-> "idle"]
    /\ wkey = [c \in Callers |-> "k1"]
    /\ wake = [c \in Callers |-> ZeroTime]
    /\ calls = 0
    /\ marks = 0
    /\ admitLog = [k \in TwoKeys |-> << >>]
    /\ cancelled = << >>
    /\ NoRefresher
    /\ NoDegradationCall
    /\ NoRegistry

\* a failure mark, the clock, and one call of IsTokenAvailable
NextAvail ==
    \/ \E k \in TwoKeys : MarkTokenFailed(k)
    \/ Tick
    \/ \E k \in TwoKeys : CallIsTokenAvailable(k)

SpecAvail == InitAvail /\ [][NextAvail]_vars

\* Record calls of two goroutines on statistics kept in Redis
NextStats ==
    \/ \E r \in Recorders, failed \in BOOLEAN : RecordSnapshot(r, failed)
    \/ \E r \in Recorders : RecordSave(r)

SpecStats == InitCall /\ [][NextStats]_vars

\* the statistics in Redis are empty or hold one recorded request
InitMerge ==
    /\ now = StartNow
    /\ NoLimiter
    /\ NoRefresher
    /\ NoDegradationCall
    /\ NoRegistry
    /\ NoLogin
    /\ NoCall
    /\ NoStream
    /\ \E held \in {EmptySnapshot,
                     RecordInto(EmptySnapshot,
                                [APIKey |-> "k1", Model |-> "m1",
                                 RequestedAt |-> StartNow - 10, Failed |-> FALSE,
                                 Tokens |-> TokenStats(1, 1, 0)], StartNow - 10)} :
          stats = [NoStatistics EXCEPT !.redis = held]

\* an imported snapshot is merged, and merged again
NextMerge ==
    \/ stats.merge.count = 0 /\ \E source \in ImportedSnapshots : MergeSnapshot(source)
    \/ stats.merge.count > 0 /\ MergeSnapshot(stats.merge.source)

SpecMerge == InitMerge /\ [][NextMerge]_vars

\* ========================================================================
\* Claims about the rate limiter (checked under SpecRL)
\* ========================================================================

\* C1: for every token key, each return of WaitForToken(k) happens at least
\* min_interval after the previous return of WaitForToken(k), whatever the
\* interleaving of callers.
C1_ReturnsMinIntervalApart ==
    \A k \in Keys :
        Len(admitLog[k]) = 2 =>
            admitLog[k][2].at - admitLog[k][1].at >= rl.minTokenInterval

\* C2: WaitForToken(k) never admits at a time earlier than the cooldown_end
\* the key holds at that moment, also when MarkTokenFailed or
\* CheckAndMarkSuspended set or extend cooldown_end while the caller waits.
C2_NoAdmissionBeforeCooldownEnd ==
    \A k \in Keys :
        \A i \in 1..Len(admitLog[k]) :
            admitLog[k][i].at >= admitLog[k][i].cooldownEnd

\* C3: WaitForToken(k) admits a request only while daily_requests(k) <
\* daily_max, hence daily_requests(k) never exceeds daily_max.
C3_AdmitsOnlyBelowDailyMax ==
    \A k \in Keys :
        /\ \A i \in 1..Len(admitLog[k]) :
               admitLog[k][i].dailyBefore < rl.dailyMaxRequests
        /\ k \in DOMAIN states => states[k].DailyRequests <= rl.dailyMaxRequests

\* C11: a caller blocked in WaitForToken is released when its request is
\* cancelled or its deadline passes: once the clock has moved past the
\* cancellation the caller is no longer inside WaitForToken.
C11_CancelledCallerReleased ==
    cancelled # << >> =>
        (wpc[cancelled[1].caller] # "idle" => now <= cancelled[1].at)

\* C15: from the detection of a suspension keyword for a key until the
\* suspension cooldown has passed, WaitForToken admits no request for the key
\* and IsTokenAvailable is false for it, whatever MarkTokenFailed and
\* MarkTokenSuccess do in between.
C15_SuspensionHoldsForCooldown ==
    \A k \in Keys :
        /\ \A i \in 1..Len(admitLog[k]) : ~admitLog[k][i].suspended
        /\ (/\ k \in DOMAIN states
            /\ states[k].IsSuspended
            /\ now < states[k].SuspendedAt + rl.suspendCooldown)
           => ~IsTokenAvailable(k)

\* C22: MarkTokenFailed(k) raises fail_count(k) by exactly 1 and sets
\* cooldown_end(k) = now + d, where d is a value within 30% of
\* backoffBase * 1.5^(fail_count - 1) (30 s by default), cut down to backoffMax
\* (5 min by default) when it is above it; this for every fail_count.
C22_BackoffJitteredAndCapped ==
    [][\A k \in Keys :
         LET before == IF k \in DOMAIN states THEN states[k].FailCount ELSE 0
         IN (k \in DOMAIN states' /\ states'[k].FailCount > before) =>
              /\ states'[k].FailCount = before + 1
              /\ LET d == states'[k].CooldownEnd - now
                     e == Min(before, ExactExponent)
                     nominal == (rl.backoffBase * Pow(3, e)) \div Pow(2, e)
                     lowest == nominal - (nominal * 3) \div 10
                     highest == nominal + (nominal * 3) \div 10
                 IN /\ d <= rl.backoffMax
                    /\ d >= Min(lowest, rl.backoffMax)
                    /\ before <= ExactExponent => d <= Min(highest, rl.backoffMax)
                    /\ before > ExactExponent => lowest >= rl.backoffMax]_vars

\* C23: MarkTokenSuccess(k) sets fail_count(k) to 0 and cooldown_end(k) to
\* the zero time and changes nothing else: last_request, request_count,
\* daily_requests, the daily reset time and the suspension fields of k are
\* what they were (for a key the limiter did not know, what they are for a
\* key never used), and every other key and the configuration are untouched.
C23_MarkSuccessFrame ==
    [][\A k \in TwoKeys :
         MarkTokenSuccess(k) =>
           LET before == IF k \in DOMAIN states THEN states[k] ELSE NewTokenState(now)
           IN /\ k \in DOMAIN states'
              /\ states'[k].FailCount = 0
              /\ states'[k].CooldownEnd = ZeroTime
              /\ \A f \in {"LastRequest", "RequestCount", "DailyRequests",
                           "DailyResetTime", "IsSuspended", "SuspendedAt"} :
                    states'[k][f] = before[f]
              /\ k \notin DOMAIN states =>
                    /\ before.LastRequest = ZeroTime
                    /\ before.RequestCount = 0
                    /\ before.DailyRequests = 0
                    /\ ~before.IsSuspended
              /\ \A x \in TwoKeys \ {k} :
                    /\ x \in DOMAIN states' <=> x \in DOMAIN states
                    /\ x \in DOMAIN states => states'[x] = states[x]
              /\ rl' = rl]_vars

\* a key that was admitted once and then suspended has been marked
\* successful, while the limiter holds a state for the other key
C23_Witness ==
    /\ marks = 1
    /\ DOMAIN states = TwoKeys
    /\ \E k \in TwoKeys :
          /\ states[k].IsSuspended
          /\ states[k].CooldownEnd = ZeroTime
          /\ states[k].FailCount = 0
          /\ states[k].RequestCount = 1

\* the eight keywords of the suspension detection
SuspensionKeywords ==
    { <<"s","u","s","p","e","n","d","e","d">>,
      <<"b","a","n","n","e","d">>,
      <<"d","i","s","a","b","l","e","d">>,
      <<"a","c","c","o","u","n","t"," ","h","a","s"," ","b","e","e","n">>,
      <<"a","c","c","e","s","s"," ","d","e","n","i","e","d">>,
      <<"r","a","t","e"," ","l","i","m","i","t"," ","e","x","c","e","e","d","e","d">>,
      <<"t","o","o"," ","m","a","n","y"," ","r","e","q","u","e","s","t","s">>,
      <<"q","u","o","t","a"," ","e","x","c","e","e","d","e","d">> }

\* the message holds one of the keywords, whatever the case of its letters
HoldsKeyword(msg) ==
    \E kw \in SuspensionKeywords :
        \E i \in 0..(Len(msg) - Len(kw)) :
            \A j \in 1..Len(kw) : ToLowerChar(msg[i + j]) = kw[j]

\* C24: CheckAndMarkSuspended(k, msg) returns true, and marks k suspended
\* with cooldown_end = now + suspendCooldown (1 h by default), exactly when
\* msg holds one of the eight keywords in any case; for every other msg it
\* returns false and the limiter's states are what they were, with no state
\* created for k.
C24_SuspendedExactlyOnKeyword ==
    /\ [](/\ \A m \in KeywordMsgs : MatchesSuspendKeyword(m) <=> HoldsKeyword(m)
          /\ NewRateLimiter.suspendCooldown = 3600 * TicksPerSecond)
    /\ [][\A k \in TwoKeys, m \in KeywordMsgs :
            CheckAndMarkSuspended(k, m) =>
               IF HoldsKeyword(m)
               THEN /\ k \in DOMAIN states'
                    /\ states'[k].IsSuspended
                    /\ states'[k].CooldownEnd = now + rl.suspendCooldown
               ELSE states' = states]_vars

\* a key that was never admitted has been suspended just now
C24_Witness ==
    /\ marks = 1
    /\ \E k \in DOMAIN states :
          /\ states[k].IsSuspended
          /\ states[k].SuspendedAt = now
          /\ states[k].CooldownEnd = now + rl.suspendCooldown
          /\ states[k].RequestCount = 0

\* C25: whenever WaitForToken handles a key whose daily reset time has
\* passed, on entry or when it wakes from a sleep, the daily counter of the
\* key restarts from 0 (1 once the request is admitted) and its reset time
\* becomes the next 24 h boundary after now.
C25_DailyResetOnFirstUse ==
    [][\A k \in Keys :
         (/\ k \in DOMAIN states
          /\ now > states[k].DailyResetTime
          /\ \E c \in Callers :
                \/ WaitForTokenEnter(c, k)
                \/ wkey[c] = k /\ WaitForTokenAfterCooldown(c)
                \/ wkey[c] = k /\ WaitForTokenAfterInterval(c))
         => /\ states'[k].DailyRequests \in {0, 1}
            /\ states'[k].DailyResetTime = Truncate(now, DayTicks) + DayTicks
            /\ states'[k].DailyResetTime > now]_vars

\* C27: a WaitForToken call that returns sets last_request of its key to the
\* time of the admission and adds exactly 1 to request_count and, unless the
\* daily counter is reset in the same step, to daily_requests; no other step
\* changes the counters, except ClearTokenState and a daily reset.
C27_EveryReturnCountsOnce ==
    [][\A k \in Keys :
         LET before == IF k \in DOMAIN states THEN states[k] ELSE NewTokenState(now)
             admitted == admitLog'[k] # admitLog[k] /\ admitLog'[k] # << >>
             sameDay == k \in DOMAIN states' /\
                        states'[k].DailyResetTime = before.DailyResetTime
         IN /\ admitted =>
                 /\ states'[k].LastRequest = now
                 /\ states'[k].RequestCount = before.RequestCount + 1
                 /\ sameDay => states'[k].DailyRequests = before.DailyRequests + 1
            /\ (~admitted /\ k \in DOMAIN states') =>
                 /\ states'[k].RequestCount = before.RequestCount
                 /\ states'[k].LastRequest = before.LastRequest
                 /\ sameDay => states'[k].DailyRequests = before.DailyRequests]_vars

\* two calls for one key have returned and both are counted
C27_Witness ==
    \E k \in DOMAIN states :
        /\ Len(admitLog[k]) = 2
        /\ admitLog[k][1].dailyBefore = 0
        /\ admitLog[k][2].dailyBefore = 1
        /\ states[k].RequestCount = 2
        /\ states[k].DailyRequests = 2
        /\ \A c \in Callers : wpc[c] = "idle"

\* C28: WaitForToken, MarkTokenFailed, MarkTokenSuccess and
\* CheckAndMarkSuspended never fail, whatever the key, for every
\* configuration with 0 < min_interval <= max_interval.
C28_LimiterNeverFails ==
    rl.minTokenInterval > 0 /\ rl.minTokenInterval <= rl.maxTokenInterval => ~Panicked

\* ========================================================================
\* Claims about graceful degradation and the background refresher
\* ========================================================================
\* C4: RefreshWithGracefulDegradation has exactly three outcomes.  When the
\* refresh call succeeds it returns the new token data, UsedFallback false and
\* no error.  When it fails while the existing access token is non-empty and
\* now < expires_at it returns the existing access token and the existing
\* expires_at (as an RFC 3339 string, to the second), UsedFallback true and no
\* error.  Otherwise it returns an error and no token data.  Exactly one of
\* Error and TokenData is set.
C4_ThreeOutcomes ==
    gd.result # Nil =>
        LET r == gd.result[1]
            valid == gd.existingAccessToken # EmptyToken /\ now < gd.expiresAt
        IN /\ ~gd.refreshed.err =>
                /\ r.TokenData = gd.refreshed.data
                /\ ~r.UsedFallback
                /\ r.Error = NoError
           /\ gd.refreshed.err /\ valid =>
                /\ r.TokenData # Nil
                /\ r.TokenData[1].AccessToken = gd.existingAccessToken
                /\ r.TokenData[1].ExpiresAt = FormatRFC3339(gd.expiresAt)
                /\ gd.expiresAt % TicksPerSecond = 0 =>
                      ParseRFC3339(r.TokenData[1].ExpiresAt).t = gd.expiresAt
                /\ r.UsedFallback
                /\ r.Error = NoError
           /\ gd.refreshed.err /\ ~valid =>
                /\ r.TokenData = Nil
                /\ r.Error # NoError
                /\ ~r.UsedFallback
           /\ (r.Error # NoError) # (r.TokenData # Nil)

\* the fallback outcome, with an expiry that is a whole second
C4_Witness ==
    /\ gd.result # Nil
    /\ gd.result[1].UsedFallback
    /\ gd.expiresAt % TicksPerSecond = 0

\* C5: a reader of a token during a background refresh sees access_token and
\* expires_at both of one revision: the pair it reads is a pair the token had
\* before the refresh or has after it, never the new access_token with the
\* old expires_at.
C5_NoTornRead ==
    snap # Nil => snap[1].pair \in installed[snap[1].id]

C7_FailedCallRetriedOnce ==
    \A t \in Tokens :
        rs[t].pc = "done" /\ rs[t].outcome \in {"error", "fallback"} =>
            rs[t].attempts = 2

\* C8: when a background refresh fails and the existing token is expired, the
\* client is marked unhealthy and its next admission fails with
\* CredentialExpired.
C8_ExpiredFailureFailsAdmission ==
    \A t \in Tokens :
        rs[t].pc = "done" /\ rs[t].outcome = "error" =>
            /\ health[t] = "unhealthy"
            /\ nextAdmit # Nil /\ nextAdmit[1].id = t =>
                  nextAdmit[1].result = "CredentialExpired"

\* C9: a refresh that falls back on the existing token leaves access_token,
\* refresh_token and expires_at as they were, sets last_verified, which the
\* next scan orders by, to the time of the fallback, and the next admission
\* proceeds with the access token the runtime had, without a failure.
C9_FallbackKeepsTokenAndServes ==
    \A t \in Tokens :
        rs[t].pc = "done" /\ rs[t].outcome = "fallback" =>
            LET pre == rs[t].pre[1]
            IN /\ tok[t].AccessToken = pre.token.AccessToken
               /\ tok[t].RefreshToken = pre.token.RefreshToken
               /\ tok[t].ExpiresAt = pre.token.ExpiresAt
               /\ tok[t].LastVerified = rs[t].at
               /\ runtime[t] = pre.runtime
               /\ nextAdmit # Nil /\ nextAdmit[1].id = t =>
                     /\ nextAdmit[1].result = "admitted"
                     /\ nextAdmit[1].AccessToken = pre.runtime.AccessToken

\* the second credential fell back and was admitted, and the next scan, of
\* one token, took the first credential, now the older one
C9_Witness ==
    /\ br.batchSize = 1
    /\ rs["t2"].pc = "done"
    /\ rs["t2"].outcome = "fallback"
    /\ tok["t2"].LastVerified > rs["t2"].pre[1].token.LastVerified
    /\ nextAdmit # Nil
    /\ nextAdmit[1].id = "t2"
    /\ loop.batch = <<"t1">>

\* C10: the refresher calls the provider for a token only if the token is due
\* (now >= expires_at - refresh_lead) or its last_verified is stale.
C10_ProviderCalledOnlyWhenDue ==
    \A t \in Tokens : rs[t].attempts > 0 => rs[t].due

\* C16: during a refresh batch at most concurrency refreshes are in flight at
\* any instant, a batch holds at most batchSize tokens, and a dispatch that is
\* not the first of its batch comes at least 100 ms after the one before it.
C16_BoundedStaggeredBatch ==
    /\ [](/\ Cardinality(InFlight) <= br.concurrency
          /\ Len(loop.batch) <= br.batchSize)
    /\ [][(loop'.started = loop.started + 1 /\ loop.i > 1) =>
             now >= loop.lastDispatch + StaggerDelay]_vars

\* the second token of a batch has waited out its stagger and is held back by
\* the semaphore alone
C16_Witness ==
    /\ loop.pc = "dispatch"
    /\ loop.i = 2
    /\ Len(loop.batch) = 2
    /\ now >= loop.lastDispatch + StaggerDelay
    /\ Cardinality(InFlight) = br.concurrency

\* ========================================================================
\* Claims about the model registry and the model-availability handlers
\* ========================================================================
ReportedFor(modelID, clientID) ==
    { r \in GetUnavailableModels : r.ModelID = modelID /\ r.ClientID = clientID }

\* C12: a quota hit recorded for (client, model) at t0 is reported by
\* GetUnavailableModels with reason "cooldown" exactly while now - t0 < 5 min;
\* from t0 + 5 min on the pair, if it is not suspended, is not reported at
\* all, with the quota entry still in the registry (no clear, no reset).
C12_QuotaCooldownExpires ==
    \A modelID \in Models, c \in Clients :
        LET quotaTime == models[modelID].QuotaExceededClients[c]
            row == [ModelID |-> modelID, ClientID |-> c, Reason |-> "cooldown"]
        IN /\ quotaTime = Nil => row \notin GetUnavailableModels
           /\ quotaTime # Nil =>
                /\ row \in GetUnavailableModels <=>
                       now - quotaTime[1] < quotaExpiredDuration
                /\ (/\ now - quotaTime[1] >= quotaExpiredDuration
                    /\ models[modelID].SuspendedClients[c] = Nil)
                   => ReportedFor(modelID, c) = {}

\* a quota hit 5 minutes ago, never cleared, and no longer reported
C12_Witness ==
    /\ op.name = "SetModelQuotaExceeded"
    /\ models[op.model].QuotaExceededClients[op.client] = Some(op.at)
    /\ now = op.at + quotaExpiredDuration
    /\ ReportedFor(op.model, op.client) = {}

\* C13: a suspended (client, model) pair is reported by GetUnavailableModels
\* whatever time has passed, and it stops being suspended only in a
\* ResumeClientModel call or a ResetModelAvailability call for that pair.
C13_SuspendedIsSticky ==
    /\ [](\A modelID \in Models, c \in Clients :
            models[modelID].SuspendedClients[c] # Nil =>
                \E r \in ReportedFor(modelID, c) :
                    r.Reason \in {"suspended", "quota_exceeded"})
    /\ [][\A modelID \in Models, c \in Clients :
            (/\ models[modelID].SuspendedClients[c] # Nil
             /\ models'[modelID].SuspendedClients[c] = Nil)
            => /\ op'.name \in {"ResumeClientModel", "ResetModelAvailability"}
               /\ op'.client = c
               /\ op'.model = modelID]_vars

\* a pair suspended more than 5 minutes ago and still reported
C13_Witness ==
    /\ op.name = "SuspendClientModel"
    /\ now >= op.at + quotaExpiredDuration
    /\ models[op.model].SuspendedClients[op.client] # Nil
    /\ ReportedFor(op.model, op.client) # {}

Ready(c, modelID) ==
    /\ models[modelID].SuspendedClients[c] = Nil
    /\ LET quotaTime == models[modelID].QuotaExceededClients[c]
       IN quotaTime = Nil \/ now - quotaTime[1] >= quotaExpiredDuration

C20_SelectsReadyOfHighestPriority ==
    [][(/\ op'.name = "Select"
        /\ maOps' = maOps + 1
        /\ \E c \in Clients : Ready(c, op'.model))
       => /\ op'.client \in Clients
          /\ Ready(op'.client, op'.model)
          /\ \A c \in Clients :
                Ready(c, op'.model) => Priority[op'.client] >= Priority[c]]_vars

\* ========================================================================
\* Claims about the interactive logins
\* ========================================================================
\* C17: the device-code polling interval starts at the interval of the
\* authorization server, 5 s when it gives none; every poll comes one
\* interval after the step before it; authorization_pending keeps polling
\* with the interval unchanged; slow_down adds exactly 5 s to the interval
\* of every later poll; any other error ends the login with a failure.
C17_PollingInterval ==
    /\ [](login.pc = "poll" \/ login.polls > 0 =>
            login.interval =
                (IF login.serverInterval > 0 THEN login.serverInterval * TicksPerSecond
                 ELSE 5 * TicksPerSecond)
                + 5 * TicksPerSecond * login.slowDowns)
    /\ [][login'.polls = login.polls + 1 =>
            /\ now' = now + login.interval
            /\ login'.lastReply = "authorization_pending" =>
                  /\ login'.pc = "poll"
                  /\ login'.interval = login.interval
            /\ login'.lastReply = "slow_down" =>
                  /\ login'.pc = "poll"
                  /\ login'.interval = login.interval + 5 * TicksPerSecond
            /\ login'.lastReply \notin {"authorization_pending", "slow_down", "token"} =>
                  /\ login'.pc = "done"
                  /\ login'.result = "error"]_vars

\* a poll answered authorization_pending after an earlier slow_down, made
\* with the lengthened interval
C17_Witness ==
    /\ login.pc = "poll"
    /\ login.slowDowns > 0
    /\ login.lastReply = "authorization_pending"
    /\ login.interval > pollInterval

\* C18: a login that opened a browser has closed it when it returns,
\* whatever the way it ends.
C18_BrowserClosedOnReturn ==
    (login.pc = "done" /\ login.flow \in LoginFlows) => login.browser # "open"

\* ========================================================================
\* Claims about single functions and the streaming handler
\* ========================================================================
\* C26: with no threshold given, and with the threshold of
\* DefaultRefreshConfig, IsTokenExpiringSoon is true exactly when
\* now >= expires_at - 10 min.
C26_DueTenMinutesBeforeExpiry ==
    (/\ call.fn = "IsTokenExpiringSoon"
     /\ call.threshold \in {0, DefaultRefreshConfig.RefreshThreshold})
    => (call.result <=> call.at >= call.expiresAt - 10 * 60 * TicksPerSecond)

\* the first provider of the chain that answers Authenticated or with an
\* error other than NotHandled, NoCredentials and InvalidCredential; 0 when
\* there is none
FirstToStop(answers) ==
    LET stops == { i \in 1..Len(answers) :
                     answers[i] \notin {"NotHandled", "NoCredentials",
                                        "InvalidCredential"} }
    IN IF stops = {} THEN 0 ELSE CHOOSE i \in stops : \A j \in stops : i <= j

C30_MappedTargetHasProvider ==
    call.fn = "MapModel" =>
        LET base == call.requestedModel[1]
        IN /\ call.result # << >> => call.providers[call.result[1]] # {}
           /\ (/\ base \in DOMAIN call.mapper.mappings
               /\ call.providers[call.mapper.mappings[base]] # {})
              => /\ call.result # << >>
                 /\ call.result[1] = call.mapper.mappings[base]

\* C21: the handler of a streaming request calls upstream again only
\* while no body byte has been delivered to the caller and
\* bootstrap_retries < max, and then with a different client; once a byte
\* has been delivered there is no further upstream call.
C21_NoUpstreamCallAfterPayload ==
    /\ [](/\ stream.delivered > 0 => stream.sentPayload
          /\ stream.upstreamCalls <= 1 + stream.maxBootstrapRetries)
    /\ [][stream'.upstreamCalls > stream.upstreamCalls =>
            /\ stream.delivered = 0
            /\ stream.upstreamCalls > 0 =>
                  /\ ~stream.sentPayload
                  /\ stream.bootstrapRetries < stream.maxBootstrapRetries
                  /\ stream'.client # stream.client]_vars

\* an upstream error after the first chunk ended the request, with retries
\* left
C21_Witness ==
    /\ stream.pc = "done"
    /\ stream.status = "error"
    /\ stream.delivered > 0
    /\ stream.upstreamCalls = 1
    /\ stream.bootstrapRetries < stream.maxBootstrapRetries

\* C35: IsTokenAvailable(k) is true for a key without state, and false
\* whenever now < cooldown_end(k) or daily_requests(k) >= daily_max, the
\* daily count being that of the current day; this also for a key whose
\* suspension period has elapsed.
C35_UnavailableInCooldownOrOverLimit ==
    call.fn = "IsTokenAvailable" =>
        /\ ~call.exists => call.result
        /\ (/\ call.exists
            /\ \/ call.at < call.state.CooldownEnd
               \/ resetDailyIfNeeded(call.state, call.at).DailyRequests
                     >= rl.dailyMaxRequests)
           => ~call.result

\* ========================================================================
\* Claims about the refresher's Stop and its callback
\* ========================================================================
\* C32: once Stop() has returned the loop has exited, no refreshSingle
\* started by the refresher is running, and none starts.
C32_NothingRunsAfterStop ==
    /\ [](loop.stop = "returned" => loop.pc = "exited" /\ InFlight = {})
    /\ [][loop.stop = "returned" =>
            \A t \in Tokens : rs'[t].pc = "call" => rs[t].pc = "call"]_vars

\* C38: a panic of the onTokenRefreshed callback is contained: refreshSingle
\* returns, the loop and the refreshSingle runs of the other tokens are left
\* as they are, and nothing of the refresher is brought down by it.
C38_CallbackPanicContained ==
    /\ [][\A t \in Tokens : refreshSingleCallbackPanics(t) =>
            /\ rs'[t].pc = "done"
            /\ loop' = loop
            /\ \A u \in Tokens \ {t} : rs'[u] = rs[u]]_vars
    /\ []((\E t \in Tokens : rs[t].recovered # Nil) =>
            /\ loop.pc # "crashed"
            /\ \A u \in Tokens : rs[u].pc # "crashed")

\* after the callback panicked for one token, the other token of the batch
\* was refreshed and the loop scanned again on a later tick
C38_Witness ==
    \E t \in Tokens, u \in Tokens :
        /\ rs[t].recovered # Nil
        /\ rs[u].pc = "done"
        /\ rs[u].outcome = "refreshed"
        /\ rs[u].at > rs[t].recovered[1]
        /\ loop.scanAt > rs[t].recovered[1]

\* ========================================================================
\* Claims about RefreshWithRetry
\* ========================================================================
\* C33: RefreshWithRetry calls refreshFunc at most max(1, MaxRetries + 1)
\* times, returns the token of the first success and calls no more, waits
\* RetryDelay between two attempts and never after the last one, returns
\* ctx.Err() when the context is cancelled during a delay, and otherwise
\* returns an error wrapping the failure of the last attempt.
C33_RetryBoundedAndOrdered ==
    /\ [](call.fn = "RefreshWithRetry" =>
            LET most == IF call.config.MaxRetries + 1 > 1
                        THEN call.config.MaxRetries + 1 ELSE 1
            IN /\ call.called <= most
               /\ call.delays <= most - 1
               /\ call.delays <= call.called
               /\ call.pc = "returned" =>
                     /\ call.called >= 1
                     /\ \/ /\ call.result[1].kind = "token"
                           /\ call.result[1].attempt = call.called
                           /\ call.lastErr < call.called
                           /\ call.returnedAt = call.lastAt
                        \/ /\ call.result[1].kind = "failed after"
                           /\ call.called = most
                           /\ call.result[1].attempt = most
                           /\ call.lastErr = call.called
                           /\ call.delays = most - 1
                           /\ call.returnedAt = call.lastAt
                        \/ /\ call.result[1].kind = "ctx.Err()"
                           /\ call.ctxDone
                           /\ call.called < most
                           /\ call.lastErr = call.called)
    /\ [][call.fn = "RefreshWithRetry" =>
            /\ (call'.called > call.called /\ call.called > 0) =>
                  now >= call.lastAt + call.config.RetryDelay
            /\ (call.pc = "delay" /\ now < call.wakeAt /\ call'.ctxDone) =>
                  /\ call'.pc = "returned"
                  /\ call'.result[1].kind = "ctx.Err()"
            /\ call.pc = "returned" => call' = call]_vars

\* the third of three attempts succeeded, each after its delay
C33_Witness ==
    /\ call.fn = "RefreshWithRetry"
    /\ call.config.MaxRetries = 2
    /\ call.config.RetryDelay = 2
    /\ call.pc = "returned"
    /\ call.result[1] = Returned("token", 3)
    /\ call.delays = 2

\* ========================================================================
\* Claims about the device-code polling
\* ========================================================================
\* C34: the polling of a device-code login is bounded by the deadline
\* start + expiresIn: no CreateToken poll is sent after the deadline, and a
\* login that ends because the deadline has passed returns the
\* authorization-timeout error.
C34_NoPollAfterDeadline ==
    /\ [][login'.polls > login.polls => now' <= login.deadline]_vars
    /\ []((login.flow \in DeviceCodeFlows /\ login.result = "timeout") =>
            now >= login.deadline)

\* ========================================================================
\* Claims about the callback servers of the logins
\* ========================================================================
\* C31: a callback with the expected state and a code that arrives while
\* the login waits is received by the login itself, never by another
\* receiver of the result channel.
C31_LoginReceivesItsCallback ==
    login.dropped # Nil =>
        ~(/\ login.dropped[1].awaited
          /\ login.dropped[1].sent.request.state = expectedState
          /\ login.dropped[1].sent.request.error = ""
          /\ login.dropped[1].sent.request.code # "")

\* C36: the login is handed a code, and attempts the token exchange with it,
\* only for a callback request whose state is the expected one and that
\* carries no error; every other callback yields an error result without a
\* code.
C36_CodeOnlyForExpectedState ==
    /\ \A i \in 1..Len(login.resultChan) :
          LET sent == login.resultChan[i]
          IN IF sent.request.state = expectedState /\ sent.request.error = ""
             THEN sent.result.Error = "" /\ sent.result.Code = sent.request.code
             ELSE sent.result.Error # "" /\ sent.result.Code = ""
    /\ login.received # Nil =>
          LET sent == login.received[1]
          IN IF sent.request.state = expectedState /\ sent.request.error = ""
             THEN sent.result.Error = ""
             ELSE sent.result.Error # "" /\ sent.result.Code = "" /\ login.exchanged = Nil
    /\ login.exchanged # Nil =>
          /\ login.received # Nil
          /\ login.received[1].request.state = expectedState
          /\ login.received[1].request.error = ""
          /\ login.exchanged[1] = login.received[1].request.code

\* a callback with a code and a wrong state ended the login with an error
\* and without a token exchange
C36_Witness ==
    /\ login.pc = "done"
    /\ login.received # Nil
    /\ login.received[1].request = [code |-> "c2", state |-> "s2", error |-> ""]
    /\ login.result = "error"
    /\ login.exchanged = Nil

\* ========================================================================
\* Claims about the listing of available models
\* ========================================================================
\* C37: a model with at least one registered client that is neither in
\* unexpired quota cooldown nor suspended for the model is listed by
\* GetAvailableModels, whatever marks the other clients of the model hold.
C37_ListedWhenAClientIsReady ==
    \A modelID \in Models :
        (\E c \in Clients : ~isQuotaExceeded(c, modelID) /\ ~isSuspended(c, modelID))
        => modelID \in GetAvailableModels

\* ========================================================================
\* Claims about the usage statistics kept in Redis
\* ========================================================================
\* number of the details of an imported snapshot filed under an API name
\* that is not empty
RECURSIVE NamedDetails(_)
NamedDetails(source) ==
    IF source = << >> THEN 0
    ELSE (IF normalizeAPIKey(Head(source).api) = "" THEN 0 ELSE 1)
         + NamedDetails(Tail(source))

\* every detail of the imported snapshot has a timestamp
NonZeroTimestamps(source) ==
    \A i \in 1..Len(source) : source[i].Timestamp # ZeroTime

\* C39: with Redis-backed statistics every Record call is counted exactly
\* once: once the Record calls made have all returned, concurrent ones
\* included, TotalRequests of the snapshot equals the number of calls and
\* equals SuccessCount + FailureCount.
C39_EveryRecordCountedOnce ==
    (\A r \in Recorders : stats.rec[r].pc = "idle")
    => /\ stats.redis.TotalRequests = stats.completed
       /\ stats.redis.TotalRequests
              = stats.redis.SuccessCount + stats.redis.FailureCount

====
